---- MODULE Spec2Model ----
(***************************************************************************)
(* A state-machine model of QgsDistanceArea (src/core/qgsdistancearea.cpp): *)
(* the ellipsoid / transform configuration, its setters, and the           *)
(* measurement operations with the kernels they evaluate.                  *)
(*                                                                         *)
(* Conventions of the model                                                *)
(*  - coordinates are integers (degrees for geographic points);            *)
(*  - a double that is the result of a division is an extended rational    *)
(*    <<n, d>> with d >= 0: d = 0 is +inf (n > 0), -inf (n < 0) or NaN     *)
(*    (n = 0), as IEEE-754 division produces them;                         *)
(*  - an ellipsoid id is a triple <<name, a, b>>: "PARAMETER:a:b" is       *)
(*    <<"PARAMETER", a, b>>, every other id is <<name, 0, 0>>;             *)
(*  - the floating-point trajectory of an iterative kernel is abstracted   *)
(*    to the number of loop bodies after which its convergence test first  *)
(*    succeeds (an input of the kernel).                                   *)
(***************************************************************************)
EXTENDS Integers, Sequences, FiniteSets, TLC

VARIABLES
  mEllipsoid,       \* ellipsoid id
  mSemiMajor,       \* a
  mSemiMinor,       \* b
  mInvFlattening,   \* 1/f, an extended rational
  mArea,            \* the constants computeAreaInit derives (m_AE, m_QA, ...)
  mSourceCrs,       \* mCoordTransform's source CRS
  mDestCrs,         \* mCoordTransform's destination CRS
  lastOp,           \* the operation that ran last
  arg,              \* its arguments
  ret,              \* its return value
  kernels,          \* the ellipsoidal kernels it evaluated
  threw,            \* TRUE when a QgsCsException escaped it
  gl                \* the activation record of a running geodesicLine call

cfgvars == <<mEllipsoid, mSemiMajor, mSemiMinor, mInvFlattening, mArea,
             mSourceCrs, mDestCrs>>
vars == <<mEllipsoid, mSemiMajor, mSemiMinor, mInvFlattening, mArea,
          mSourceCrs, mDestCrs, lastOp, arg, ret, kernels, threw, gl>>

-----------------------------------------------------------------------------
(* Bounds of the model *)

MaxAxis == 2        \* setEllipsoid(a, b) is called with a, b in -1 .. MaxAxis
MaxLen == 3         \* point sequences have at most MaxLen vertices
MaxNeed == 21       \* a kernel loop converges after 0 .. MaxNeed bodies
MaxSamples == 4     \* geodesicLine emits at most MaxSamples sampled points

-----------------------------------------------------------------------------
(* Extended rationals: the doubles that come out of divisions *)

Abs(x) == IF x < 0 THEN -x ELSE x

Sign(x) == IF x < 0 THEN -1 ELSE IF x > 0 THEN 1 ELSE 0

RECURSIVE Gcd(_, _)
Gcd(x, y) == IF y = 0 THEN x ELSE Gcd(y, x % y)

\* n/d in lowest terms with d >= 0; n/0 is +inf, -inf or NaN
Rat(n, d) ==
  IF d = 0 THEN <<Sign(n), 0>>
  ELSE LET g == Gcd(Abs(n), Abs(d))
       IN  <<(Sign(d) * n) \div g, Abs(d) \div g>>

RInt(x) == <<x, 1>>

IsNaN(r) == r[2] = 0 /\ r[1] = 0

IsFiniteR(r) == r[2] # 0

RNeg(r) == <<-r[1], r[2]>>

RAdd(x, y) ==
  IF x[2] = 0 /\ y[2] = 0
  THEN (IF x[1] = y[1] THEN x ELSE <<0, 0>>)
  ELSE IF x[2] = 0 THEN x
  ELSE IF y[2] = 0 THEN y
  ELSE LET g == Gcd(x[2], y[2])
       IN  Rat(x[1] * (y[2] \div g) + y[1] * (x[2] \div g),
               (x[2] \div g) * y[2])

RSub(x, y) == RAdd(x, RNeg(y))

RMul(x, y) ==
  IF x[2] = 0 \/ y[2] = 0
  THEN <<Sign(x[1]) * Sign(y[1]), 0>>
  ELSE LET g1 == Gcd(Abs(x[1]), y[2])
           g2 == Gcd(Abs(y[1]), x[2])
       IN  Rat((x[1] \div g1) * (y[1] \div g2),
               (x[2] \div g2) * (y[2] \div g1))

RDiv(x, y) ==
  IF y[2] = 0
  THEN (IF y[1] = 0 \/ x[2] = 0 THEN <<0, 0>> ELSE <<0, 1>>)
  ELSE Rat(x[1] * y[2], x[2] * y[1])

RAbs(r) == <<Abs(r[1]), r[2]>>

RLess(x, y) ==
  /\ ~IsNaN(x) /\ ~IsNaN(y)
  /\ IF x[2] = 0 /\ y[2] = 0 THEN x[1] < y[1]
     ELSE IF x[2] = 0 THEN x[1] < 0
     ELSE IF y[2] = 0 THEN y[1] > 0
     ELSE LET g == Gcd(x[2], y[2])
          IN  x[1] * (y[2] \div g) < y[1] * (x[2] \div g)

-----------------------------------------------------------------------------
(* Ellipsoid ids and the ellipsoid catalog *)

GEO_NONE == <<"NONE", 0, 0>>

ParameterId(a, b) == <<"PARAMETER", a, b>>

\* QgsEllipsoidUtils::ellipsoidParameters: the catalog's answer for an id.
\* Two named ellipsoids with small axes stand for the catalog's entries.
ellipsoidParameters(id) ==
  CASE id[1] = "WGS84" ->
         [valid |-> TRUE, useCustomParameters |-> FALSE, semiMajor |-> 3,
          semiMinor |-> 2, inverseFlattening |-> <<3, 1>>, crs |-> "EPSG:4326"]
    [] id[1] = "clrk66" ->
         [valid |-> TRUE, useCustomParameters |-> FALSE, semiMajor |-> 2,
          semiMinor |-> 1, inverseFlattening |-> <<2, 1>>, crs |-> "EPSG:4008"]
    [] id[1] = "PARAMETER" ->
         [valid |-> TRUE, useCustomParameters |-> TRUE, semiMajor |-> id[2],
          semiMinor |-> id[3], inverseFlattening |-> <<0, 1>>, crs |-> ""]
    [] OTHER ->
         [valid |-> FALSE, useCustomParameters |-> FALSE, semiMajor |-> 0,
          semiMinor |-> 0, inverseFlattening |-> <<0, 1>>, crs |-> ""]

AxisValues == -1 .. MaxAxis

EllipsoidIds ==
  {GEO_NONE, <<"WGS84", 0, 0>>, <<"clrk66", 0, 0>>, <<"bogus", 0, 0>>}
    \cup {ParameterId(a, b) : a \in 1 .. MaxAxis, b \in 1 .. MaxAxis}

-----------------------------------------------------------------------------
(* The configuration as a value: what the setters read and write *)

Config ==
  [mEllipsoid |-> mEllipsoid, mSemiMajor |-> mSemiMajor,
   mSemiMinor |-> mSemiMinor, mInvFlattening |-> mInvFlattening,
   mArea |-> mArea, mSourceCrs |-> mSourceCrs, mDestCrs |-> mDestCrs]

willUseEllipsoid(c) == c.mEllipsoid # GEO_NONE

\* the area constants before computeAreaInit has ever run
NoAreaInit ==
  [m_AE |-> <<0, 0>>, m_QA |-> <<0, 0>>, m_QB |-> <<0, 0>>, m_QC |-> <<0, 0>>,
   m_QbarA |-> <<0, 0>>, m_QbarB |-> <<0, 0>>, m_QbarC |-> <<0, 0>>,
   m_QbarD |-> <<0, 0>>, m_Qp |-> <<0, 0>>, m_E |-> <<0, 0>>]

\* getQ at the pole: sin(pi/2) = 1
getQAtPole(ar) ==
  RMul(RInt(1), RAdd(RInt(1), RMul(RInt(1),
       RAdd(ar.m_QA, RMul(RInt(1), RAdd(ar.m_QB, RMul(RInt(1), ar.m_QC)))))))

\* m_AE and the coefficients of the two series, from a2, e2, e4 and e6
seriesCoefficients(ar, a2, e2, e4, e6) ==
  [ar EXCEPT
     !.m_AE = RMul(a2, RSub(RInt(1), e2)),
     !.m_QA = RMul(<<2, 3>>, e2),
     !.m_QB = RMul(<<3, 5>>, e4),
     !.m_QC = RMul(<<4, 7>>, e6),
     !.m_QbarA = RSub(RSub(RSub(RInt(-1), RMul(<<2, 3>>, e2)),
                           RMul(<<3, 5>>, e4)), RMul(<<4, 7>>, e6)),
     !.m_QbarB = RAdd(RAdd(RMul(<<2, 9>>, e2), RMul(<<2, 5>>, e4)),
                      RMul(<<4, 7>>, e6)),
     !.m_QbarC = RSub(RNeg(RMul(<<3, 25>>, e4)), RMul(<<12, 35>>, e6)),
     !.m_QbarD = RMul(<<4, 49>>, e6)]

\* e4 = e2 * e2; e6 = e4 * e2
seriesFromE2(ar, a2, e2) ==
  seriesCoefficients(ar, a2, e2, RMul(e2, e2), RMul(RMul(e2, e2), e2))

\* if ( m_E < 0.0 ) m_E = -m_E
positiveE(ar) ==
  IF RLess(ar.m_E, RInt(0)) THEN [ar EXCEPT !.m_E = RNeg(ar.m_E)] ELSE ar

\* m_Qp = getQ( M_PI_2 ); m_E = 4 * M_PI * m_Qp * m_AE, kept as the factor
\* of pi
totalArea(ar) ==
  positiveE([ar EXCEPT !.m_Qp = getQAtPole(ar),
                       !.m_E = RMul(RMul(RInt(4), getQAtPole(ar)), ar.m_AE)])

\* computeAreaInit
computeAreaInit(c) ==
  IF c.mEllipsoid = GEO_NONE THEN c
  ELSE [c EXCEPT !.mArea =
          totalArea(
            seriesFromE2(
              c.mArea, RInt(c.mSemiMajor * c.mSemiMajor),
              RSub(RInt(1), RDiv(RInt(c.mSemiMinor * c.mSemiMinor),
                                 RInt(c.mSemiMajor * c.mSemiMajor)))))]

\* setEllipsoid( double semiMajor, double semiMinor ): stores whatever it is
\* given and always answers true
setEllipsoidAB(c, semiMajor, semiMinor) ==
  [cfg |-> computeAreaInit(
             [c EXCEPT !.mEllipsoid = ParameterId(semiMajor, semiMinor),
                       !.mSemiMajor = semiMajor,
                       !.mSemiMinor = semiMinor,
                       !.mInvFlattening =
                          RDiv(RInt(semiMajor), RInt(semiMajor - semiMinor))]),
   ret |-> TRUE]

\* setFromParams
setFromParams(c, params) ==
  IF params.useCustomParameters
  THEN setEllipsoidAB(c, params.semiMajor, params.semiMinor).cfg
  ELSE computeAreaInit(
         [c EXCEPT !.mSemiMajor = params.semiMajor,
                   !.mSemiMinor = params.semiMinor,
                   !.mInvFlattening = params.inverseFlattening,
                   !.mDestCrs = params.crs])

\* a variant that stores the id before it has looked it up
setEllipsoidId_StoreFirst(c, ellipsoid) ==
  IF ellipsoid = GEO_NONE \/ ~ellipsoidParameters(ellipsoid).valid
  THEN [cfg |-> [c EXCEPT !.mEllipsoid = ellipsoid],
        ret |-> ellipsoid = GEO_NONE]
  ELSE [cfg |-> setFromParams([c EXCEPT !.mEllipsoid = ellipsoid],
                              ellipsoidParameters(ellipsoid)),
        ret |-> TRUE]

\* setEllipsoid( const QString &ellipsoid )
setEllipsoidId(c, ellipsoid) ==
  IF ellipsoid = GEO_NONE
  THEN [cfg |-> [c EXCEPT !.mEllipsoid = GEO_NONE], ret |-> TRUE]
  ELSE IF ~ellipsoidParameters(ellipsoid).valid
       THEN [cfg |-> c, ret |-> FALSE]
       ELSE [cfg |-> setFromParams([c EXCEPT !.mEllipsoid = ellipsoid],
                                   ellipsoidParameters(ellipsoid)),
             ret |-> TRUE]

\* setSourceCrs (the transform context is not modelled)
setSourceCrs(c, srcCRS) == [c EXCEPT !.mSourceCrs = srcCRS]

\* QgsDistanceArea::QgsDistanceArea()
Constructed ==
  setEllipsoidId(
    setSourceCrs([mEllipsoid |-> GEO_NONE, mSemiMajor |-> -1,
                  mSemiMinor |-> -1, mInvFlattening |-> <<-1, 1>>,
                  mArea |-> NoAreaInit, mSourceCrs |-> "", mDestCrs |-> ""],
                 "EPSG:4326"),
    GEO_NONE).cfg

-----------------------------------------------------------------------------
(* Points and the coordinate transform *)

Pt(x, y) == [x |-> x, y |-> y]

\* the CRS facade: geographic or projected, and the unit of its coordinates
isGeographic(crs) == crs \in {"EPSG:4326", "EPSG:4008"}

mapUnits(crs) ==
  CASE crs \in {"EPSG:4326", "EPSG:4008"} -> "degrees"
    [] crs = "EPSG:3857" -> "meters"
    [] crs = "EPSG:2263" -> "feet"
    [] OTHER -> "unknown"

\* A projected CRS is modelled as plate carree with a false easting.
FalseEasting(crs) ==
  CASE crs = "EPSG:3857" -> 10
    [] crs = "EPSG:2263" -> 20
    [] OTHER -> 0

\* QgsCoordinateTransform does nothing when it has no destination or when
\* source and destination are the same CRS
ShortCircuits(c) == c.mDestCrs = "" \/ c.mSourceCrs = c.mDestCrs

\* the transform raises QgsCsException for a point outside the valid area
TransformThrows(c, p) == ~ShortCircuits(c) /\ (p.y > 90 \/ p.y < -90)

\* mCoordTransform.transform( p ): source CRS to destination CRS
Transform(c, p) ==
  IF ShortCircuits(c) THEN p
  ELSE Pt(p.x - FalseEasting(c.mSourceCrs) + FalseEasting(c.mDestCrs), p.y)

\* the points measurements are called with (in source CRS coordinates):
\* (-10,0) and (170,0) are antipodal, (170,0) and (-170,10) lie on either
\* side of the antimeridian, (0,100) is outside every projection's valid area
Points == {Pt(-10, 0), Pt(170, 0), Pt(-170, 10), Pt(0, 100)}

RECURSIVE SeqsUpTo(_, _)
SeqsUpTo(S, n) ==
  IF n = 0 THEN {<<>>}
  ELSE LET shorter == SeqsUpTo(S, n - 1)
       IN  shorter \cup {Append(s, x) : s \in shorter, x \in S}

PointSeqs == SeqsUpTo(Points, MaxLen)

-----------------------------------------------------------------------------
(* Vincenty inverse: computeDistanceBearing *)

\* the largest r in lo .. hi with r * r <= n, by bisection
RECURSIVE ISqrtFrom(_, _, _)
ISqrtFrom(n, lo, hi) ==
  IF lo >= hi
  THEN lo
  ELSE LET mid == (lo + hi + 1) \div 2
       IN  IF mid * mid <= n
           THEN ISqrtFrom(n, mid, hi)
           ELSE ISqrtFrom(n, lo, mid - 1)

\* QgsPointXY::distance, rounded down to a whole number
PlanarDistance(p, q) ==
  ISqrtFrom((p.x - q.x) * (p.x - q.x) + (p.y - q.y) * (p.y - q.y), 0, 1024)

\* the angular separation sigma - deltaSigma of two geographic points
AngularDistance(p, q) == PlanarDistance(p, q)

\* atan2( dx, dy ) to the nearest of the eight compass directions, in degrees
Atan2Deg(dx, dy) ==
  CASE dx = 0 /\ dy >= 0 -> 0
    [] dx > 0 /\ dy > 0 -> 45
    [] dx > 0 /\ dy = 0 -> 90
    [] dx > 0 /\ dy < 0 -> 135
    [] dx = 0 /\ dy < 0 -> 180
    [] dx < 0 /\ dy < 0 -> -135
    [] dx < 0 /\ dy = 0 -> -90
    [] OTHER -> -45

BearingValues == {0, 45, 90, 135, 180, -135, -90, -45}

\* int iterLimit = 20
IterLimit == 20

\* The number of lambda updates after which |lambda - lambdaP| <= 1e-12 first
\* holds for a pair of points: Vincenty's iteration does not converge for
\* antipodal points, and settles in a few steps otherwise.
LambdaIterations(p1, p2) ==
  IF Abs(p2.x - p1.x) = 180 /\ p1.y + p2.y = 0
  THEN 2 * IterLimit
  ELSE 2 + Abs(p2.x - p1.x) \div 90

\* while ( fabs( lambda - lambdaP ) > 1e-12 && iterLimit-- > 0 ): the limit
\* decremented after the test
lambdaLoop_PostDecrement(need, iterLimit, bodies) ==
  LET n == IF need < iterLimit THEN need ELSE iterLimit
  IN  [iterLimit |-> IF need <= iterLimit THEN iterLimit - n ELSE -1,
       bodies |-> bodies + n]

\* while ( std::fabs( lambda - lambdaP ) > 1e-12 && --iterLimit > 0 ) { body }
\* from the loop test on: `bodies` updates of lambda have run, and the test
\* |lambda - lambdaP| > 1e-12 holds as long as bodies < need
RECURSIVE lambdaLoop(_, _, _)
lambdaLoop(need, iterLimit, bodies) ==
  IF bodies < need
  THEN IF iterLimit - 1 > 0
       THEN lambdaLoop(need, iterLimit - 1, bodies + 1)
       ELSE [iterLimit |-> iterLimit - 1, bodies |-> bodies]
  ELSE [iterLimit |-> iterLimit, bodies |-> bodies]

\* computeDistanceBearing( p1, p2, course1 ): `need` is the number of lambda
\* updates the points take to converge
computeDistanceBearing(c, p1, p2, need) ==
  IF p1.x = p2.x /\ p1.y = p2.y
  THEN [ret |-> 0, path |-> "coincident", bodies |-> 0, kernels |-> {},
        course1 |-> "unset"]
  ELSE LET l == lambdaLoop(need, IterLimit, 0)
       IN  IF l.iterLimit = 0
           THEN [ret |-> -1, path |-> "sentinel", bodies |-> l.bodies,
                 kernels |-> {"VincentyInverse"}, course1 |-> "unset"]
           ELSE [ret |-> c.mSemiMinor * AngularDistance(p1, p2),
                 path |-> "computed", bodies |-> l.bodies,
                 kernels |-> {"VincentyInverse"},
                 course1 |-> Atan2Deg(p2.x - p1.x, p2.y - p1.y)]

-----------------------------------------------------------------------------
(* Lines *)

Result(r, k) == [ret |-> r, kernels |-> k, threw |-> FALSE]

\* total += r: the value of r added and the kernels it evaluated noted
Added(total, r) == Result(total.ret + r.ret, total.kernels \cup r.kernels)

\* a handler that returns what had been summed before the exception
measureLineCatch_KeepPartial(total, ks) == Result(total, ks)

\* catch ( QgsCsException & ) { ...; return 0.0; } of measureLine( points )
measureLineCatch(total, ks) == Result(0, ks)

\* computeDistanceBearing( p1, p2 ) with the number of updates these two
\* points take to converge
inverse(c, p1, p2) ==
  computeDistanceBearing(c, p1, p2, LambdaIterations(p1, p2))

\* double measureLine( const QgsPointXY &p1, const QgsPointXY &p2 )
measureLinePair(c, p1, p2) ==
  IF willUseEllipsoid(c)
  THEN IF TransformThrows(c, p1) \/ TransformThrows(c, p2)
       THEN Result(0, {})
       ELSE Added(Result(0, {}),
                  inverse(c, Transform(c, p1), Transform(c, p2)))
  ELSE Result(PlanarDistance(p2, p1), {})

\* the for loop of measureLine( points ), from vertex i on; total holds the
\* sum so far and the kernels evaluated for it
RECURSIVE measureLineLoop(_, _, _, _, _)
measureLineLoop(c, points, i, p1, total) ==
  IF i > Len(points) THEN total
  ELSE IF willUseEllipsoid(c)
       THEN IF TransformThrows(c, points[i])
            THEN measureLineCatch(total.ret, total.kernels)
            ELSE measureLineLoop(c, points, i + 1, Transform(c, points[i]),
                                 Added(total,
                                       inverse(c, p1,
                                               Transform(c, points[i]))))
       ELSE measureLineLoop(c, points, i + 1, points[i],
                            Added(total, measureLinePair(c, p1, points[i])))

\* double measureLine( const QVector<QgsPointXY> &points )
measureLine(c, points) ==
  IF Len(points) < 2 THEN Result(0, {})
  ELSE IF willUseEllipsoid(c)
       THEN IF TransformThrows(c, points[1])
            THEN measureLineCatch(0, {})
            ELSE measureLineLoop(c, points, 1, Transform(c, points[1]),
                                 Result(0, {}))
       ELSE measureLineLoop(c, points, 1, points[1], Result(0, {}))

-----------------------------------------------------------------------------
(* The geometry facade *)

Geom(t, pts, parts) == [type |-> t, pts |-> pts, parts |-> parts]

Line(pts) == Geom("line", pts, <<>>)

\* parts: the exterior ring, then the interior rings, each a Line
Polygon(rings) == Geom("polygon", <<>>, rings)

Collection(parts) == Geom("collection", <<>>, parts)

RECURSIVE dimensionFrom(_, _)
\* QgsAbstractGeometry::dimension; a collection has its parts' largest one
dimensionFrom(g, i) ==
  CASE g.type = "point" -> 0
    [] g.type = "line" -> 1
    [] g.type = "polygon" -> 2
    [] g.type = "collection" ->
         IF i > Len(g.parts) THEN 0
         ELSE LET d == dimensionFrom(g.parts[i], 1)
                  rest == dimensionFrom(g, i + 1)
              IN  IF d > rest THEN d ELSE rest
    [] OTHER -> 0

dimension(g) == dimensionFrom(g, 1)

RECURSIVE pathLength(_, _)
pathLength(pts, i) ==
  IF i >= Len(pts) THEN 0
  ELSE PlanarDistance(pts[i], pts[i + 1]) + pathLength(pts, i + 1)

RECURSIVE shoelace(_, _)
shoelace(points, i) ==
  IF i > Len(points) THEN 0
  ELSE LET j == (i % Len(points)) + 1
       IN  points[i].x * points[j].y - points[j].x * points[i].y
             + shoelace(points, i + 1)

\* computePolygonFlatArea
computePolygonFlatArea(points) == RAbs(Rat(shoelace(points, 1), 2))

RECURSIVE planarLength(_, _)
\* QgsAbstractGeometry::length
planarLength(g, i) ==
  CASE g.type = "line" -> pathLength(g.pts, 1)
    [] g.type = "collection" ->
         IF i > Len(g.parts) THEN 0
         ELSE planarLength(g.parts[i], 1) + planarLength(g, i + 1)
    [] OTHER -> 0

RECURSIVE planarPerimeter(_, _)
\* QgsAbstractGeometry::perimeter
planarPerimeter(g, i) ==
  CASE g.type = "polygon" ->
         IF i > Len(g.parts) THEN 0
         ELSE pathLength(g.parts[i].pts, 1) + planarPerimeter(g, i + 1)
    [] g.type = "collection" ->
         IF i > Len(g.parts) THEN 0
         ELSE planarPerimeter(g.parts[i], 1) + planarPerimeter(g, i + 1)
    [] OTHER -> 0

RECURSIVE planarArea(_, _)
\* QgsAbstractGeometry::area: the exterior ring's area less the holes'
planarArea(g, i) ==
  CASE g.type = "polygon" ->
         IF i > Len(g.parts) THEN RInt(0)
         ELSE LET ring == computePolygonFlatArea(g.parts[i].pts)
              IN  RAdd(IF i = 1 THEN ring ELSE RNeg(ring), planarArea(g, i + 1))
    [] g.type = "collection" ->
         IF i > Len(g.parts) THEN RInt(0)
         ELSE RAdd(planarArea(g.parts[i], 1), planarArea(g, i + 1))
    [] OTHER -> RInt(0)

-----------------------------------------------------------------------------
(* Polygon area *)

\* x1 and x2 in degrees after
\*   if ( x1 > x2 ) while ( x1 - x2 > M_PI ) x2 += m_TwoPI;
\*   else if ( x2 > x1 ) while ( x2 - x1 > M_PI ) x1 += m_TwoPI;
RECURSIVE raiseWithinPi(_, _)
raiseWithinPi(hi, lo) ==
  IF hi - lo > 180 THEN raiseWithinPi(hi, lo + 360) ELSE lo

\* an unwrap that also raises a longitude exactly pi below the other:
\*   if ( x1 > x2 ) while ( x1 - x2 >= M_PI ) x2 += m_TwoPI;
unwrap_RaiseAtPi(x1, x2) ==
  IF x1 > x2
  THEN <<x1, IF x1 - x2 >= 180 THEN raiseWithinPi(x1, x2 + 360) ELSE x2>>
  ELSE IF x2 > x1 THEN <<raiseWithinPi(x2, x1), x2>>
  ELSE <<x1, x2>>

unwrap(x1, x2) ==
  IF x1 > x2 THEN <<x1, raiseWithinPi(x1, x2)>>
  ELSE IF x2 > x1 THEN <<raiseWithinPi(x2, x1), x2>>
  ELSE <<x1, x2>>

\* m_Qp - ( Qbar2 - Qbar1 ) / dy and m_Qp - getQ( ( y1 + y2 ) / 2 ): both are
\* m_Qp - Q(y) at a latitude y between y1 and y2; the model takes the middle
\* one and the sine's chord, sin y = y / 90
edgeWeight(c, y1, y2) == RSub(c.mArea.m_Qp, Rat(y1 + y2, 180))

\* the edge walk of computePolygonArea from vertex i on, in units of pi / 180
RECURSIVE areaWalk(_, _, _, _, _)
areaWalk(c, points, i, prev, area) ==
  IF i > Len(points) THEN area
  ELSE LET u == unwrap(prev.x, points[i].x)
           dx == u[2] - u[1]
       IN  areaWalk(c, points, i + 1, points[i],
                    RAdd(area, RMul(RInt(dx),
                                    edgeWeight(c, prev.y, points[i].y))))

\* m_E, in the units of the edge walk
wholeEllipsoid(c) == RMul(RInt(180), c.mArea.m_E)

\* if ( ( area *= m_AE ) < 0.0 ) area = -area;
unsigned(area) == IF RLess(area, RInt(0)) THEN RNeg(area) ELSE area

\* if ( area > m_E ) area = m_E;
capped(mE, area) == IF RLess(mE, area) THEN mE ELSE area

\* if ( area > m_E / 2 ) area = m_E - area;
otherPole(mE, area) ==
  IF RLess(RMul(mE, <<1, 2>>), area) THEN RSub(mE, area) ELSE area

\* double computePolygonArea( const QVector<QgsPointXY> &points )
computePolygonArea(c, points) ==
  IF Len(points) = 0 THEN Result(RInt(0), {})
  ELSE IF ~willUseEllipsoid(c)
       THEN Result(computePolygonFlatArea(points), {})
       ELSE Result(
              otherPole(
                wholeEllipsoid(c),
                capped(wholeEllipsoid(c),
                       unsigned(RMul(areaWalk(c, points, 1,
                                              points[Len(points)], RInt(0)),
                                     c.mArea.m_AE)))),
              {"AreaSeries"})

\* double measurePolygon( const QVector<QgsPointXY> &points )
measurePolygon(c, points) ==
  IF willUseEllipsoid(c)
  THEN IF \E i \in 1 .. Len(points) : TransformThrows(c, points[i])
       THEN Result(RInt(0), {})   \* catch ( QgsCsException & ): return 0.0
       ELSE computePolygonArea(c, [i \in 1 .. Len(points) |->
                                     Transform(c, points[i])])
  ELSE computePolygonArea(c, points)

-----------------------------------------------------------------------------
(* The measurement dispatcher *)

Zero(type) == IF type = "Area" THEN RInt(0) ELSE 0

\* sum += r, for a length or an area
Summed(type, sum, r) ==
  Result(IF type = "Area" THEN RAdd(sum.ret, r.ret) ELSE sum.ret + r.ret,
         sum.kernels \cup r.kernels)

\* area -= r
Subtracted(area, r) ==
  Result(RSub(area.ret, r.ret), area.kernels \cup r.kernels)

\* area -= measurePolygon( innerRing ) for the interior rings from i on
RECURSIVE subtractRings(_, _, _, _)
subtractRings(c, rings, i, acc) ==
  IF i > Len(rings) THEN acc
  ELSE subtractRings(c, rings, i + 1,
                     Subtracted(acc, measurePolygon(c, rings[i].pts)))

RECURSIVE measure(_, _, _)
RECURSIVE measureParts(_, _, _, _, _)

\* sum += measure( collection->geometryN( i ), measureType )
measureParts(c, parts, measureType, i, acc) ==
  IF i > Len(parts) THEN acc
  ELSE measureParts(c, parts, measureType, i + 1,
                    Summed(measureType, acc,
                           measure(c, parts[i], measureType)))

\* double measure( const QgsAbstractGeometry *geomV2, MeasureType type )
measure(c, g, type) ==
  IF g.type = "null" THEN Result(Zero(type), {})
  ELSE IF dimension(g) <= 0 THEN Result(Zero(type), {})
  ELSE
    LET measureType ==
          IF type = "Default"
          THEN (IF dimension(g) = 1 THEN "Length" ELSE "Area")
          ELSE type
    IN  IF ~willUseEllipsoid(c)
        THEN (IF measureType = "Length"
              THEN Result(planarLength(g, 1), {})
              ELSE Result(planarArea(g, 1), {}))
        ELSE IF g.type = "collection"
        THEN measureParts(c, g.parts, measureType, 1,
                          Result(Zero(measureType), {}))
        ELSE IF measureType = "Length"
        THEN (IF g.type # "line" THEN Result(0, {})
              ELSE measureLine(c, g.pts))
        ELSE IF g.type # "polygon" THEN Result(RInt(0), {})
        ELSE subtractRings(c, g.parts, 2,
                           IF Len(g.parts) = 0 THEN Result(RInt(0), {})
                           ELSE measurePolygon(c, g.parts[1].pts))

\* double measureArea( const QgsGeometry &geometry )
measureArea(c, g) ==
  IF g.type = "null" THEN Result(RInt(0), {}) ELSE measure(c, g, "Area")

\* double measureLength( const QgsGeometry &geometry )
measureLength(c, g) ==
  IF g.type = "null" THEN Result(0, {}) ELSE measure(c, g, "Length")

\* length += measure( ring ) over the rings of one surface, from ring i on
RECURSIVE ringLengths(_, _, _, _)
ringLengths(c, rings, i, acc) ==
  IF i > Len(rings) THEN acc
  ELSE ringLengths(c, rings, i + 1,
                   Added(acc, measure(c, rings[i], "Default")))

RECURSIVE surfaceLengths(_, _, _, _)
surfaceLengths(c, surfaces, i, acc) ==
  IF i > Len(surfaces) THEN acc
  ELSE surfaceLengths(c, surfaces, i + 1,
                      ringLengths(c, surfaces[i].parts, 1, acc))

\* double measurePerimeter( const QgsGeometry &geometry ); a collection of
\* polygons is the facade's multi surface
measurePerimeter(c, g) ==
  IF g.type = "null" THEN Result(0, {})
  ELSE IF dimension(g) < 2 THEN Result(0, {})
  ELSE IF ~willUseEllipsoid(c) THEN Result(planarPerimeter(g, 1), {})
  ELSE LET surfaces ==
             IF g.type = "polygon" THEN <<g>>
             ELSE IF g.type = "collection"
                       /\ \A i \in 1 .. Len(g.parts) :
                            g.parts[i].type = "polygon"
                  THEN g.parts
                  ELSE <<>>
       IN  surfaceLengths(c, surfaces, 1, Result(0, {}))

\* the local `bearing` after computeDistanceBearing( pp1, pp2, &bearing )
course(r, uninit) ==
  Result(IF r.path = "computed" THEN r.course1 ELSE uninit, r.kernels)

\* double bearing( const QgsPointXY &p1, const QgsPointXY &p2 ): the
\* transforms run outside any try block; `uninit` is what the local
\* `bearing` holds when computeDistanceBearing returns without writing it
bearing(c, p1, p2, uninit) ==
  IF willUseEllipsoid(c)
  THEN IF TransformThrows(c, p1) \/ TransformThrows(c, p2)
       THEN [ret |-> "QgsCsException", kernels |-> {}, threw |-> TRUE]
       ELSE course(inverse(c, Transform(c, p1), Transform(c, p2)), uninit)
  ELSE Result(Atan2Deg(p2.x - p1.x, p2.y - p1.y), {})

-----------------------------------------------------------------------------
(* Vincenty direct: destination and computeSpheroidProject *)
(* Lengths are in the unit in which a sphere of radius 1 has one unit per  *)
(* degree of arc; an azimuth in radians is a whole number of quarter turns *)
(* (units of pi / 2), a bearing in degrees a whole number of degrees.      *)

\* sigma = distance / ( b * A ), in degrees of arc (0 stands in for the
\* non-finite quotient of b = 0)
ArcOf(c, distance) ==
  IF c.mSemiMinor = 0 THEN 0
  ELSE Sign(c.mSemiMinor) * (distance \div Abs(c.mSemiMinor))

\* the point `arc` degrees from p in compass direction `quarter` (0 north,
\* 1 east, 2 south, 3 west)
DirectPoint(p, arc, quarter) ==
  CASE quarter % 4 = 0 -> Pt(p.x, p.y + arc)
    [] quarter % 4 = 1 -> Pt(p.x + arc, p.y)
    [] quarter % 4 = 2 -> Pt(p.x, p.y - arc)
    [] OTHER -> Pt(p.x - arc, p.y)

\* QgsPointXY destination( p, distance, bearingDeg ): no test of the
\* ellipsoid id precedes the Vincenty recurrence
destination(c, p, distance, bearingDeg) ==
  Result(DirectPoint(p, ArcOf(c, distance), bearingDeg \div 90),
         {"VincentyDirect"})

\* the iteration cap of computeSpheroidProject: while ( i < 999 && ... )
ProjectIterLimit == 999

\* a loop without the cap: do { body; i++; } while ( |...| > 1e-9 )
sigmaLoop_Uncapped(need, i) ==
  IF i + 1 < need THEN need ELSE i + 1

\* do { body; i++; } while ( i < 999 && |last_sigma - sigma| / sigma > 1e-9 ):
\* the value of i on exit, the test failing first after `need` bodies. The
\* test holds after body n as long as n < 999 and n < need, so the loop that
\* goes on after body i + 1 leaves at the smaller of 999 and need.
sigmaLoop(need, i) ==
  IF i + 1 < ProjectIterLimit /\ i + 1 < need
  THEN IF need < ProjectIterLimit THEN need ELSE ProjectIterLimit
  ELSE i + 1

\* if ( azimuth < 0.0 ) azimuth += 2 pi; if ( azimuth > 2 pi ) azimuth -= 2 pi
normalizeAzimuth(azimuth) ==
  LET a1 == IF azimuth < 0 THEN azimuth + 4 ELSE azimuth
  IN  IF a1 > 4 THEN a1 - 4 ELSE a1

\* a guard that takes the poles, not 85.05115 degrees, as the latitude limits
outOfDomain_PoleLimit(c, p1) ==
  \/ c.mSemiMajor < 0 /\ c.mSemiMinor < 0
  \/ p1.x < -180
  \/ p1.x > 180
  \/ p1.y < -90
  \/ p1.y > 90

\* the guard of computeSpheroidProject: 85.05115 degrees is 8505115 / 100000
outOfDomain(c, p1) ==
  \/ c.mSemiMajor < 0 /\ c.mSemiMinor < 0
  \/ p1.x < -180
  \/ p1.x > 180
  \/ p1.y * 100000 < -8505115
  \/ p1.y * 100000 > 8505115

\* QgsPointXY computeSpheroidProject( p1, distance, azimuth )
computeSpheroidProject(c, p1, distance, azimuth, need) ==
  IF outOfDomain(c, p1)
  THEN [ret |-> Pt(0, 0), kernels |-> {}, threw |-> FALSE, bodies |-> 0,
        azimuth |-> azimuth]
  ELSE [ret |-> DirectPoint(p1, ArcOf(c, distance),
                            normalizeAzimuth(azimuth)),
        kernels |-> {"VincentyDirect"}, threw |-> FALSE,
        bodies |-> sigmaLoop(need, 0),
        azimuth |-> normalizeAzimuth(azimuth)]

\* QgsUnitTypes::fromUnitToUnitFactor( DistanceMeters, unit )
fromMetersFactor(unit) ==
  CASE unit = "meters" -> <<1, 1>>
    [] unit = "feet" -> <<3, 1>>
    [] OTHER -> <<1, 2>>

\* p2 = computeSpheroidProject( ... ); result = p1.distance( p2 );
onSpheroid(p1, r) ==
  [ret |-> PlanarDistance(p1, r.ret), point |-> r.ret, kernels |-> r.kernels,
   threw |-> FALSE]

\* a Cartesian branch that takes p1.distance( p2 ) after p2 = p1.project( )
measureLineProjected_MeasureAfterProject(c, p1, distance, azimuth, need) ==
  IF isGeographic(c.mSourceCrs) /\ willUseEllipsoid(c)
  THEN onSpheroid(p1, computeSpheroidProject(c, p1, distance, azimuth, need))
  ELSE IF mapUnits(c.mSourceCrs) # "meters"
       THEN LET f == fromMetersFactor(mapUnits(c.mSourceCrs))
                converted == (distance * f[1]) \div f[2]
            IN  [ret |-> PlanarDistance(p1, DirectPoint(p1, converted,
                                                        azimuth)),
                 point |-> DirectPoint(p1, converted, azimuth),
                 kernels |-> {}, threw |-> FALSE]
       ELSE [ret |-> distance, point |-> DirectPoint(p1, distance, azimuth),
             kernels |-> {}, threw |-> FALSE]

\* double measureLineProjected( p1, distance, azimuth, projectedPoint ):
\* ret is the returned length, point what is written to projectedPoint
measureLineProjected(c, p1, distance, azimuth, need) ==
  IF isGeographic(c.mSourceCrs) /\ willUseEllipsoid(c)
  THEN onSpheroid(p1, computeSpheroidProject(c, p1, distance, azimuth, need))
  ELSE IF mapUnits(c.mSourceCrs) # "meters"
       THEN LET f == fromMetersFactor(mapUnits(c.mSourceCrs))
                converted == (distance * f[1]) \div f[2]
            IN  [ret |-> PlanarDistance(p1, Pt(0, 0)),
                 point |-> DirectPoint(p1, converted, azimuth),
                 kernels |-> {}, threw |-> FALSE]
       ELSE [ret |-> distance, point |-> DirectPoint(p1, distance, azimuth),
             kernels |-> {}, threw |-> FALSE]

-----------------------------------------------------------------------------
(* Units *)

\* QgsUnitTypes::DistanceUnit lengthUnits()
lengthUnits(c) ==
  IF willUseEllipsoid(c) THEN "meters" ELSE mapUnits(c.mSourceCrs)

\* QgsUnitTypes::AreaUnit areaUnits()
areaUnits(c) ==
  IF willUseEllipsoid(c) THEN "square meters"
  ELSE CASE mapUnits(c.mSourceCrs) = "meters" -> "square meters"
         [] mapUnits(c.mSourceCrs) = "feet" -> "square feet"
         [] mapUnits(c.mSourceCrs) = "degrees" -> "square degrees"
         [] OTHER -> "unknown"

\* QgsUnitTypes::fromUnitToUnitFactor for the units of the model
unitFactor(from, to) ==
  IF from = to THEN <<1, 1>>
  ELSE CASE from = "meters" -> fromMetersFactor(to)
         [] to = "meters" -> RDiv(<<1, 1>>, fromMetersFactor(from))
         [] from = "square meters" -> <<9, 1>>
         [] to = "square meters" -> <<1, 9>>
         [] OTHER -> RDiv(fromMetersFactor(to), fromMetersFactor(from))

\* double convertLengthMeasurement( length, toUnits )
convertLengthMeasurement(c, length, toUnits) ==
  Result(RMul(RInt(length), unitFactor(lengthUnits(c), toUnits)), {})

\* double convertAreaMeasurement( area, toUnits )
convertAreaMeasurement(c, area, toUnits) ==
  Result(RMul(RInt(area), unitFactor(areaUnits(c), toUnits)), {})

-----------------------------------------------------------------------------
(* The geodesic library and the antimeridian *)
(* Points along a geodesic have rational coordinates: [x, y] of extended   *)
(* rationals.                                                              *)

ToR(p) == [x |-> RInt(p.x), y |-> RInt(p.y)]

RLeq(x, y) == RLess(x, y) \/ (~IsNaN(x) /\ x = y)

\* fabs( r ) > 0.00000001
ExceedsTolerance(r) ==
  IF r[2] = 0 THEN r[1] # 0
  ELSE r[1] # 0 /\ r[2] \div Abs(r[1]) < 100000000

\* a longitude brought into (-180, 180]
RECURSIVE AngNormalize(_)
AngNormalize(r) ==
  IF ~IsFiniteR(r) THEN r
  ELSE IF RLess(RInt(180), r) THEN AngNormalize(RSub(r, RInt(360)))
  ELSE IF RLeq(r, RInt(-180)) THEN AngNormalize(RAdd(r, RInt(360)))
  ELSE r

\* geod_init and geod_inverseline: the line from (lat1, lon1) to (lat2, lon2)
\* the short way round. The model's geodesic is straight in longitude and
\* latitude and its length is a times the degrees it covers.
geodInverseLine(c, lat1, lon1, lat2, lon2) ==
  LET dLon == AngNormalize(RSub(lon2, lon1))
      dLat == RSub(lat2, lat1)
  IN  [lat1 |-> lat1, lon1 |-> lon1, dLat |-> dLat, dLon |-> dLon,
       s13 |-> RMul(RInt(Abs(c.mSemiMajor)), RAdd(RAbs(dLon), RAbs(dLat)))]

\* geod_position: latitude and longitude at arc length d along the line
geodPosition(line, d) ==
  LET t == RDiv(d, line.s13)
  IN  [lat |-> RAdd(line.lat1, RMul(t, line.dLat)),
       lon |-> AngNormalize(RAdd(line.lon1, RMul(t, line.dLon)))]

\* iterations < 100
AntimeridianIterLimit == 100

\* the window [p1x, p1y]-[p2x, p2y], the candidate [lat, lon], the distance
\* intersectionDist to it along `line`, and the iterations made, are kept in
\* one record w
\* if ( lon < 180 ) { p1x = lon; p1y = lat; } else { p2x = lon; p2y = lat; }
windowAtCandidate(w) ==
  IF RLess(w.lon, RInt(180)) THEN [w EXCEPT !.p1x = w.lon, !.p1y = w.lat]
  ELSE [w EXCEPT !.p2x = w.lon, !.p2y = w.lat]

\* geod_inverseline on the window; intersectionDist = line.s13 * 0.5
bisected(c, w) ==
  [w EXCEPT !.line = geodInverseLine(c, w.p1y, w.p1x, w.p2y, w.p2x),
            !.intersectionDist =
               RMul(geodInverseLine(c, w.p1y, w.p1x, w.p2y, w.p2x).s13,
                    <<1, 2>>)]

\* the if / else at the head of the loop body: binary search on a wide
\* window after the first pass, Newton's step otherwise
narrowed(c, w) ==
  IF w.iterations > 0 /\ RLess(RInt(5), RAbs(RSub(w.p2x, w.p1x)))
  THEN bisected(c, windowAtCandidate(w))
  ELSE [w EXCEPT !.intersectionDist =
          RMul(w.intersectionDist,
               RDiv(RSub(RInt(180), w.p1x), RSub(w.lon, w.p1x)))]

\* if ( lon < 0 ) lon += 360; iterations++;
candidateAt(w, pos) ==
  [w EXCEPT !.lat = pos.lat,
            !.lon = IF RLess(pos.lon, RInt(0)) THEN RAdd(pos.lon, RInt(360))
                    ELSE pos.lon,
            !.iterations = w.iterations + 1]

\* geod_position( &line, intersectionDist, &lat, &lon, &t )
repositioned(w) == candidateAt(w, geodPosition(w.line, w.intersectionDist))

\* the while loop of latitudeGeodesicCrossesAntimeridian from its test on
RECURSIVE crossingSearch(_, _)
crossingSearch(c, w) ==
  IF ExceedsTolerance(RSub(w.lon, RInt(180)))
       /\ w.iterations < AntimeridianIterLimit
  THEN crossingSearch(c, repositioned(narrowed(c, w)))
  ELSE w

\* if ( p.x() < -120 ) p.setX( p.x() + 360 )
eastOfMinus120(p) ==
  IF RLess(p.x, RInt(-120)) THEN [p EXCEPT !.x = RAdd(p.x, RInt(360))] ELSE p

\* we need p2.x() > 180 and p1.x() < 180: the end points in that order, and
\* whether p1.x() >= 180
ordered(p1, p2) ==
  IF RLess(p1.x, RInt(180))
  THEN [p1x |-> p1.x, p1y |-> p1.y, p2x |-> p2.x, p2y |-> p2.y,
        swapped |-> RLeq(RInt(180), p1.x)]
  ELSE [p1x |-> p2.x, p1y |-> p2.y, p2x |-> p1.x, p2y |-> p1.y,
        swapped |-> RLeq(RInt(180), p1.x)]

\* if ( p1.x() >= 180 ) fractionAlongLine = 1 - fractionAlongLine
oriented(v, fraction) ==
  IF v.swapped THEN RSub(RInt(1), fraction) ELSE fraction

\* the branch for mEllipsoid == GEO_NONE, f being ( 180 - p1x ) / ( p2x - p1x )
planarCrossing(v, f) ==
  [ret |-> RAdd(v.p1y, RMul(f, RSub(v.p2y, v.p1y))),
   fraction |-> oriented(v, f), kernels |-> {}, threw |-> FALSE,
   iterations |-> 0]

\* fractionAlongLine = intersectionDist / totalDist; return lat
searched(v, line, w) ==
  [ret |-> w.lat, fraction |-> oriented(v, RDiv(w.intersectionDist, line.s13)),
   kernels |-> {"GeodesicLib"}, threw |-> FALSE, iterations |-> w.iterations]

\* the search started on the line between the end points, p2 the candidate
geodesicCrossing(c, v, line) ==
  searched(v, line,
           crossingSearch(c, [p1x |-> v.p1x, p1y |-> v.p1y, p2x |-> v.p2x,
                              p2y |-> v.p2y, lat |-> v.p2y, lon |-> v.p2x,
                              intersectionDist |-> line.s13, line |-> line,
                              iterations |-> 0]))

crossing(c, v) ==
  IF c.mEllipsoid = GEO_NONE
  THEN planarCrossing(v, RDiv(RSub(RInt(180), v.p1x), RSub(v.p2x, v.p1x)))
  ELSE geodesicCrossing(c, v, geodInverseLine(c, v.p1y, v.p1x, v.p2y, v.p2x))

\* double latitudeGeodesicCrossesAntimeridian( pp1, pp2, fractionAlongLine ):
\* ret is the latitude, fraction what is written to fractionAlongLine
latitudeGeodesicCrossesAntimeridian(c, pp1, pp2) ==
  crossing(c, ordered(eastOfMinus120(pp1), eastOfMinus120(pp2)))

\* the test for a segment that crosses the antimeridian
crossesAntimeridian(prevLon, lon) ==
  \/ RLess(prevLon, RInt(-120)) /\ RLess(RInt(120), lon)
  \/ RLess(RInt(120), prevLon) /\ RLess(lon, RInt(-120))

\* the reverse transform raises QgsCsException outside the valid area
ReverseThrowsR(c, p) ==
  ~ShortCircuits(c) /\ ~(RLeq(RInt(-90), p.y) /\ RLeq(p.y, RInt(90)))

ReverseTransformR(c, p) ==
  IF ShortCircuits(c) THEN p
  ELSE [p EXCEPT !.x = RAdd(p.x, RInt(FalseEasting(c.mSourceCrs)
                                        - FalseEasting(c.mDestCrs)))]

IsFinitePoint(p) == IsFiniteR(p.x) /\ IsFiniteR(p.y)

-----------------------------------------------------------------------------
(* splitGeometryAtAntimeridian (lines without Z and M values) *)

\* std::fmod( x, 360.0 ): the remainder has the sign of x
Fmod360(x) == Sign(x) * (Abs(x) % 360)

\* x = std::fmod( x, 360.0 ); if ( x > 180 ) x -= 360;
normalizeLongitude(c, x) ==
  IF isGeographic(c.mSourceCrs)
  THEN (IF Fmod360(x) > 180 THEN Fmod360(x) - 360 ELSE Fmod360(x))
  ELSE x

\* the point put on the antimeridian on the side of longitude `side`
antiMeridianPoint(c, side, lat180) ==
  ReverseTransformR(c, [x |-> IF RLess(side, RInt(-120)) THEN RInt(-180)
                              ELSE RInt(180),
                        y |-> lat180])

\* if ( std::isfinite( x ) && std::isfinite( y ) ) newPoints << point
finitePoint(q) == IF IsFinitePoint(q) THEN <<q>> ELSE <<>>

RECURSIVE splitVertices(_, _, _, _)

\* a segment that crosses: x is what latitudeGeodesicCrossesAntimeridian gave
\* for it. The part so far is closed on the side of prevLon and the next one
\* opened on the side of lon.
splitAt(c, pts, i, st, g, x) ==
  IF ReverseThrowsR(c, [x |-> RInt(180), y |-> x.ret])
  THEN [lines |-> st.lines, threw |-> TRUE,
        kernels |-> st.kernels \cup x.kernels]
  ELSE splitVertices(
         c, pts, i + 1,
         [newPoints |->
            finitePoint(antiMeridianPoint(c, g.x, x.ret))
              \o <<[x |-> RInt(normalizeLongitude(c, pts[i].x)),
                    y |-> RInt(pts[i].y)]>>,
          prevLon |-> g.x, prevLat |-> g.y,
          lines |-> Append(st.lines,
                           st.newPoints
                             \o finitePoint(
                                  antiMeridianPoint(c, st.prevLon, x.ret))),
          kernels |-> st.kernels \cup x.kernels])

\* a vertex loop that keeps the transformed coordinates of an uncrossed
\* vertex instead of the vertex p
transformedVertex_KeepTransformed(c, pts, i, st, g) ==
  IF i > 1 /\ crossesAntimeridian(st.prevLon, g.x)
  THEN splitAt(c, pts, i, st, g,
               latitudeGeodesicCrossesAntimeridian(
                 c, [x |-> st.prevLon, y |-> st.prevLat], g))
  ELSE splitVertices(
         c, pts, i + 1,
         [st EXCEPT !.newPoints = Append(st.newPoints, g),
                    !.prevLon = g.x, !.prevLat = g.y])

\* vertex i after transformInPlace gave g for it
transformedVertex(c, pts, i, st, g) ==
  IF i > 1 /\ crossesAntimeridian(st.prevLon, g.x)
  THEN splitAt(c, pts, i, st, g,
               latitudeGeodesicCrossesAntimeridian(
                 c, [x |-> st.prevLon, y |-> st.prevLat], g))
  ELSE splitVertices(
         c, pts, i + 1,
         [st EXCEPT !.newPoints =
                       Append(st.newPoints,
                              [x |-> RInt(normalizeLongitude(c, pts[i].x)),
                               y |-> RInt(pts[i].y)]),
                    !.prevLon = g.x, !.prevLat = g.y])

\* the vertex loop of one part from vertex i on; st holds newPoints, prevLon,
\* prevLat, the linestrings already added to res and the kernels evaluated
splitVertices(c, pts, i, st) ==
  IF i > Len(pts)
  THEN [lines |-> Append(st.lines, st.newPoints), threw |-> FALSE,
        kernels |-> st.kernels]
  ELSE IF TransformThrows(c, Pt(normalizeLongitude(c, pts[i].x), pts[i].y))
  THEN [lines |-> st.lines, threw |-> TRUE, kernels |-> st.kernels]
  ELSE transformedVertex(
         c, pts, i, st,
         ToR(Transform(c, Pt(normalizeLongitude(c, pts[i].x), pts[i].y))))

RECURSIVE splitParts(_, _, _, _, _)

\* after part i: r is what its vertex loop gave. catch ( QgsCsException & )
\* { res->addGeometry( line->clone() ); break; }
splitNext(c, parts, i, r) ==
  IF r.threw
  THEN Result(Append(r.lines, [k \in 1 .. Len(parts[i].pts) |->
                                ToR(parts[i].pts[k])]),
              r.kernels)
  ELSE splitParts(c, parts, i + 1, r.lines, r.kernels)

\* the loop over the parts from part i on; res holds the linestrings added
splitParts(c, parts, i, res, ks) ==
  IF i > Len(parts) THEN Result(res, ks)
  ELSE IF parts[i].type # "line" \/ Len(parts[i].pts) = 0
       THEN splitParts(c, parts, i + 1, res, ks)
       ELSE splitNext(c, parts, i,
                      splitVertices(c, parts[i].pts, 1,
                                    [newPoints |-> <<>>, prevLon |-> RInt(0),
                                     prevLat |-> RInt(0), lines |-> res,
                                     kernels |-> ks]))

IsLineGeometry(g) ==
  \/ g.type = "line"
  \/ g.type = "collection"
       /\ \A i \in 1 .. Len(g.parts) : g.parts[i].type = "line"

\* QgsGeometry splitGeometryAtAntimeridian( const QgsGeometry &geometry ):
\* ret is the geometry itself or the linestrings of the multi linestring
splitGeometryAtAntimeridian(c, g) ==
  IF ~IsLineGeometry(g) THEN Result(g, {})
  ELSE splitParts(c, IF g.type = "line" THEN <<g>> ELSE g.parts, 1, <<>>, {})

-----------------------------------------------------------------------------
(* geodesicLine: the call up to its loop, and the loop one pass at a time *)

Idle == [active |-> FALSE]

\* geodesicLine up to the while loop: ret is the result when the call returns
\* at once, and frame the activation record when it enters the loop
geodesicLineEnter(c, p1, p2, interval, breakLine) ==
  IF ~willUseEllipsoid(c)
  THEN [done |-> TRUE, ret |-> <<<<ToR(p1), ToR(p2)>>>>, kernels |-> {},
        frame |-> Idle]
  ELSE IF TransformThrows(c, p1) \/ TransformThrows(c, p2)
  THEN [done |-> TRUE, ret |-> <<>>, kernels |-> {"GeodesicLib"},
        frame |-> Idle]
  ELSE [done |-> FALSE, ret |-> "running", kernels |-> {"GeodesicLib"},
        frame |->
          [active |-> TRUE, pp2 |-> ToR(Transform(c, p2)),
           interval |-> interval, breakLine |-> breakLine,
           line |-> geodInverseLine(c, RInt(Transform(c, p1).y),
                                    RInt(Transform(c, p1).x),
                                    RInt(Transform(c, p2).y),
                                    RInt(Transform(c, p2).x)),
           res |-> <<>>, currentPart |-> <<ToR(p1)>>, d |-> RInt(interval),
           prevLon |-> RInt(Transform(c, p1).x),
           prevLat |-> RInt(Transform(c, p1).y), lastRun |-> FALSE,
           passes |-> 0, kernels |-> {"GeodesicLib"}]]

\* currentPart << transform( p, ReverseTransform ) inside try / catch
appendReversed(c, part, p, onlyFinite) ==
  IF ReverseThrowsR(c, p) THEN part
  ELSE IF onlyFinite /\ ~IsFinitePoint(ReverseTransformR(c, p)) THEN part
  ELSE Append(part, ReverseTransformR(c, p))

\* the longitude of the antimeridian on the side of lon
side(lon) == IF RLess(lon, RInt(-120)) THEN RInt(-180) ELSE RInt(180)

\* the candidate of this pass: pp2 on the last run, else geod_position at d
sample(f) ==
  IF f.lastRun
  THEN [lat |-> f.pp2.y,
        lon |-> IF RLess(RInt(180), f.pp2.x) THEN RSub(f.pp2.x, RInt(360))
                ELSE f.pp2.x]
  ELSE geodPosition(f.line, f.d)

\* the line is broken: the current part is closed at latitude x.ret on the
\* side of prevLon and a new one opened on the side of lon
broken(c, f, pos, x) ==
  [f EXCEPT
     !.res = Append(f.res,
                    appendReversed(c, f.currentPart,
                                   [x |-> side(f.prevLon), y |-> x.ret],
                                   TRUE)),
     !.currentPart = appendReversed(c, <<>>,
                                    [x |-> side(pos.lon), y |-> x.ret], TRUE),
     !.kernels = f.kernels \cup x.kernels]

\* prevLon = lon; prevLat = lat; currentPart << the sample, reverse transformed
sampled(c, f, pos) ==
  [f EXCEPT !.prevLon = pos.lon, !.prevLat = pos.lat,
            !.currentPart = appendReversed(c, f.currentPart,
                                           [x |-> pos.lon, y |-> pos.lat],
                                           FALSE)]

\* if ( lastRun ) break; d += interval;
\* if ( d >= totalDist ) lastRun = true;  and, after the loop,
\* res << currentPart; return res;  totalDist is line.s13
passEnd(f) ==
  IF f.lastRun
  THEN [done |-> TRUE, ret |-> Append(f.res, f.currentPart),
        kernels |-> f.kernels, frame |-> Idle]
  ELSE [done |-> FALSE, ret |-> "running", kernels |-> f.kernels,
        frame |-> [f EXCEPT !.d = RAdd(f.d, RInt(f.interval)),
                            !.lastRun = RLeq(f.line.s13,
                                             RAdd(f.d, RInt(f.interval))),
                            !.passes = f.passes + 1]]

\* one pass on the sample pos
passOn(c, f, pos) ==
  IF f.breakLine /\ crossesAntimeridian(f.prevLon, pos.lon)
  THEN passEnd(sampled(c, broken(c, f, pos,
                                 latitudeGeodesicCrossesAntimeridian(
                                   c, [x |-> f.prevLon, y |-> f.prevLat],
                                   [x |-> pos.lon, y |-> pos.lat])),
                       pos))
  ELSE passEnd(sampled(c, f, pos))

\* one pass of while ( true ) of geodesicLine on activation record f
geodesicLinePass(c, f) == passOn(c, f, sample(f))

-----------------------------------------------------------------------------
(* The arguments the operations are called with *)

Rings ==
  {<<t[1], t[2], t[3], t[1]>> :
     t \in {u \in Points \X Points \X Points :
              u[1] # u[2] /\ u[1] # u[3] /\ u[2] # u[3]}}

\* a ring the transform accepts and one with a vertex it rejects
Holes ==
  {<<Pt(-10, 0), Pt(170, 0), Pt(-170, 10), Pt(-10, 0)>>,
   <<Pt(-10, 0), Pt(0, 100), Pt(170, 0), Pt(-10, 0)>>}

SecondLines == {<<Pt(-10, 0), Pt(-170, 10)>>, <<Pt(0, 100), Pt(170, 0)>>}

FirstLines ==
  {u \in Points \X Points \X Points : u[1] # u[2] /\ u[2] # u[3]}

Geometries ==
  {Geom("null", <<>>, <<>>), Geom("point", <<Pt(0, 0)>>, <<>>)}
    \cup {Line(s) : s \in PointSeqs}
    \cup {Polygon(<<Line(r)>>) : r \in Rings}
    \cup {Polygon(<<Line(r), Line(h)>>) : r \in Rings, h \in Holes}
    \cup {Collection(<<Line(s), Line(t)>>) : s \in FirstLines, t \in SecondLines}
    \cup {Collection(<<Polygon(<<Line(r)>>), Polygon(<<Line(h)>>)>>) :
            r \in Rings, h \in Holes}

\* lines with a longitude outside (-180, 180]
WideLines ==
  {<<Pt(190, 0), Pt(170, 0)>>, <<Pt(190, 0), Pt(-170, 10)>>,
   <<Pt(-190, 0), Pt(-170, 10)>>, <<Pt(540, 0), Pt(170, 0)>>,
   <<Pt(-10, 0), Pt(350, 0)>>, <<Pt(180, 0), Pt(-180, 10)>>,
   <<Pt(-180, 0), Pt(-170, 10)>>}

LineGeometries ==
  {Line(s) : s \in PointSeqs \cup WideLines}
    \cup {Collection(<<Line(s), Line(t)>>) : s \in FirstLines, t \in SecondLines}
    \cup {Polygon(<<Line(h)>>) : h \in Holes}

\* origins on either side of each limit of computeSpheroidProject
ProjectOrigins ==
  {Pt(x, 0) : x \in {-181, -180, 0, 180, 181}}
    \cup {Pt(0, y) : y \in {-86, -85, 85, 86}}

\* pairs of points given to latitudeGeodesicCrossesAntimeridian, in either
\* order: pairs that pass the crossing test, two of them with both end points
\* on the antimeridian, and pairs more than 180 degrees apart with no
\* longitude below -120, whose short way round crosses the antimeridian
CrossingPairs ==
  {<<Pt(170, 0), Pt(-170, 10)>>, <<Pt(-170, 10), Pt(170, 0)>>,
   <<Pt(130, 10), Pt(-130, -10)>>, <<Pt(180, 0), Pt(-180, 10)>>,
   <<Pt(-180, 10), Pt(180, 0)>>, <<Pt(-70, 0), Pt(170, 0)>>,
   <<Pt(-70, 0), Pt(170, 10)>>, <<Pt(120, 0), Pt(-120, 0)>>}

Distances == {0, 4}

\* azimuths in units of pi / 2: 4 is 2 pi, -5 lies below -2 pi, 9 above 4 pi
Azimuths == {-5, -1, 1, 4, 5, 9}

-----------------------------------------------------------------------------
(* The state machine *)

Init ==
  /\ \E c \in {Constructed} :
       /\ mEllipsoid = c.mEllipsoid
       /\ mSemiMajor = c.mSemiMajor
       /\ mSemiMinor = c.mSemiMinor
       /\ mInvFlattening = c.mInvFlattening
       /\ mArea = c.mArea
       /\ mSourceCrs = c.mSourceCrs
       /\ mDestCrs = c.mDestCrs
  /\ lastOp = "none"
  /\ arg = <<>>
  /\ ret = "none"
  /\ kernels = {}
  /\ threw = FALSE
  /\ gl = Idle

\* no call is in progress and the result of the last one has been taken: the
\* object is used from one thread, one call after the other
Ready == ~gl.active /\ lastOp = "none"

Configure(c) ==
  /\ mEllipsoid' = c.mEllipsoid
  /\ mSemiMajor' = c.mSemiMajor
  /\ mSemiMinor' = c.mSemiMinor
  /\ mInvFlattening' = c.mInvFlattening
  /\ mArea' = c.mArea
  /\ mSourceCrs' = c.mSourceCrs
  /\ mDestCrs' = c.mDestCrs

\* what a finished call leaves to observe: its value and what it evaluated
Observe(op, a, r) ==
  /\ lastOp' = op
  /\ arg' = a
  /\ ret' = r.ret
  /\ kernels' = r.kernels
  /\ threw' = r.threw

\* the same for a call with several outputs: all of them
ObserveAll(op, a, r) ==
  /\ lastOp' = op
  /\ arg' = a
  /\ ret' = r
  /\ kernels' = r.kernels
  /\ threw' = r.threw

SetSourceCrs ==
  /\ Ready
  /\ \E crs \in {"EPSG:4326", "EPSG:3857"} :
       /\ Configure(setSourceCrs(Config, crs))
       /\ Observe("setSourceCrs", <<crs>>, Result("void", {}))
  /\ UNCHANGED gl

SetEllipsoidId ==
  /\ Ready
  /\ \E id \in EllipsoidIds :
       \E r \in {setEllipsoidId(Config, id)} :
         /\ Configure(r.cfg)
         /\ Observe("setEllipsoid(id)", <<id>>, Result(r.ret, {}))
  /\ UNCHANGED gl

SetEllipsoidAB ==
  /\ Ready
  /\ \E a \in AxisValues, b \in AxisValues :
       \E r \in {setEllipsoidAB(Config, a, b)} :
         /\ Configure(r.cfg)
         /\ Observe("setEllipsoid(a,b)", <<a, b>>, Result(r.ret, {}))
  /\ UNCHANGED gl

MeasureLength ==
  /\ Ready
  /\ \E g \in Geometries :
       Observe("measureLength", <<g>>, measureLength(Config, g))
  /\ UNCHANGED <<cfgvars, gl>>

\* a measureArea that turns the ellipsoid off when it had no use for it
MeasureArea_FallsBackToNone ==
  /\ Ready
  /\ \E g \in Geometries :
       \E r \in {measureArea(Config, g)} :
         /\ Observe("measureArea", <<g>>, r)
         /\ Configure([Config EXCEPT !.mEllipsoid =
                          IF r.kernels = {} THEN GEO_NONE ELSE @])
  /\ UNCHANGED gl

MeasureArea ==
  /\ Ready
  /\ \E g \in Geometries :
       Observe("measureArea", <<g>>, measureArea(Config, g))
  /\ UNCHANGED <<cfgvars, gl>>

MeasurePerimeter ==
  /\ Ready
  /\ \E g \in Geometries :
       Observe("measurePerimeter", <<g>>, measurePerimeter(Config, g))
  /\ UNCHANGED <<cfgvars, gl>>

MeasureLinePoints ==
  /\ Ready
  /\ \E points \in PointSeqs :
       Observe("measureLine(points)", <<points>>, measureLine(Config, points))
  /\ UNCHANGED <<cfgvars, gl>>

MeasureLinePair ==
  /\ Ready
  /\ \E p1 \in Points, p2 \in Points :
       Observe("measureLine(p1,p2)", <<p1, p2>>,
               measureLinePair(Config, p1, p2))
  /\ UNCHANGED <<cfgvars, gl>>

MeasureLineProjected ==
  /\ Ready
  /\ \E p1 \in ProjectOrigins, distance \in Distances, azimuth \in Azimuths :
       ObserveAll("measureLineProjected", <<p1, distance, azimuth>>,
                  measureLineProjected(Config, p1, distance, azimuth, 3))
  /\ UNCHANGED <<cfgvars, gl>>

ComputeSpheroidProject ==
  /\ Ready
  /\ \E p1 \in ProjectOrigins, distance \in Distances, azimuth \in Azimuths,
        need \in {1, 3, 1000} :
       ObserveAll("computeSpheroidProject", <<p1, distance, azimuth>>,
                  computeSpheroidProject(Config, p1, distance, azimuth, need))
  /\ UNCHANGED <<cfgvars, gl>>

ComputeDistanceBearing ==
  /\ Ready
  /\ \E p1 \in Points, p2 \in {Pt(-10, 0), Pt(170, 0)}, need \in 0 .. MaxNeed :
       ObserveAll("computeDistanceBearing", <<p1, p2, need>>,
                  [threw |-> FALSE]
                    @@ computeDistanceBearing(Config, p1, p2, need))
  /\ UNCHANGED <<cfgvars, gl>>

ComputePolygonArea ==
  /\ Ready
  /\ \E points \in Rings \cup {<<>>} :
       Observe("computePolygonArea", <<points>>,
               computePolygonArea(Config, points))
  /\ UNCHANGED <<cfgvars, gl>>

Bearing ==
  /\ Ready
  /\ \E p1 \in Points, p2 \in Points, uninit \in BearingValues :
       /\ uninit = 0 \/ (willUseEllipsoid(Config)
                           /\ ~TransformThrows(Config, p1)
                           /\ ~TransformThrows(Config, p2)
                           /\ computeDistanceBearing(Config,
                                Transform(Config, p1), Transform(Config, p2),
                                LambdaIterations(Transform(Config, p1),
                                                 Transform(Config, p2))).path
                                # "computed")
       /\ Observe("bearing", <<p1, p2>>, bearing(Config, p1, p2, uninit))
  /\ UNCHANGED <<cfgvars, gl>>

Destination ==
  /\ Ready
  /\ \E p \in Points, distance \in Distances, bearingDeg \in {0, 90, 180, 270} :
       Observe("destination", <<p, distance, bearingDeg>>,
               destination(Config, p, distance, bearingDeg))
  /\ UNCHANGED <<cfgvars, gl>>

LatitudeGeodesicCrossesAntimeridian ==
  /\ Ready
  /\ \E pp \in CrossingPairs :
       ObserveAll("latitudeGeodesicCrossesAntimeridian", pp,
                  latitudeGeodesicCrossesAntimeridian(Config, ToR(pp[1]),
                                                      ToR(pp[2])))
  /\ UNCHANGED <<cfgvars, gl>>

SplitGeometryAtAntimeridian ==
  /\ Ready
  /\ \E g \in LineGeometries :
       Observe("splitGeometryAtAntimeridian", <<g>>,
               splitGeometryAtAntimeridian(Config, g))
  /\ UNCHANGED <<cfgvars, gl>>

GeodesicLineCall ==
  /\ Ready
  /\ \E p1 \in Points, p2 \in Points, interval \in {-200, 0, 200, 600},
        breakLine \in BOOLEAN :
       \E r \in {geodesicLineEnter(Config, p1, p2, interval, breakLine)} :
         /\ Observe("geodesicLine", <<p1, p2, interval, breakLine>>,
                    Result(r.ret, r.kernels))
         /\ gl' = r.frame
  /\ UNCHANGED cfgvars

GeodesicLineLoop ==
  /\ gl.active
  /\ gl.passes < MaxSamples
  /\ \E r \in {geodesicLinePass(Config, gl)} :
       /\ Observe("geodesicLine", arg, Result(r.ret, kernels \cup r.kernels))
       /\ gl' = r.frame
  /\ UNCHANGED cfgvars

LengthUnits ==
  /\ Ready
  /\ Observe("lengthUnits", <<>>, Result(lengthUnits(Config), {}))
  /\ UNCHANGED <<cfgvars, gl>>

AreaUnitsCall ==
  /\ Ready
  /\ Observe("areaUnits", <<>>, Result(areaUnits(Config), {}))
  /\ UNCHANGED <<cfgvars, gl>>

ConvertLengthMeasurement ==
  /\ Ready
  /\ \E length \in Distances, toUnits \in {"meters", "feet", "degrees"} :
       Observe("convertLengthMeasurement", <<length, toUnits>>,
               convertLengthMeasurement(Config, length, toUnits))
  /\ UNCHANGED <<cfgvars, gl>>

ConvertAreaMeasurement ==
  /\ Ready
  /\ \E area \in Distances, toUnits \in {"square meters", "square feet",
                                          "square degrees"} :
       Observe("convertAreaMeasurement", <<area, toUnits>>,
               convertAreaMeasurement(Config, area, toUnits))
  /\ UNCHANGED <<cfgvars, gl>>

\* the caller takes the result of the finished call
TakeResult ==
  /\ ~gl.active
  /\ lastOp # "none"
  /\ lastOp' = "none"
  /\ arg' = <<>>
  /\ ret' = "none"
  /\ kernels' = {}
  /\ threw' = FALSE
  /\ UNCHANGED <<cfgvars, gl>>

Next ==
  \/ SetSourceCrs
  \/ SetEllipsoidId
  \/ SetEllipsoidAB
  \/ MeasureLength
  \/ MeasureArea
  \/ MeasurePerimeter
  \/ MeasureLinePoints
  \/ MeasureLinePair
  \/ MeasureLineProjected
  \/ ComputeSpheroidProject
  \/ ComputeDistanceBearing
  \/ ComputePolygonArea
  \/ Bearing
  \/ Destination
  \/ LatitudeGeodesicCrossesAntimeridian
  \/ SplitGeometryAtAntimeridian
  \/ GeodesicLineCall
  \/ GeodesicLineLoop
  \/ LengthUnits
  \/ AreaUnitsCall
  \/ ConvertLengthMeasurement
  \/ ConvertAreaMeasurement
  \/ TakeResult

Spec == Init /\ [][Next]_vars

-----------------------------------------------------------------------------
(* Properties *)

PublicOperations ==
  {"measureLength", "measureArea", "measurePerimeter", "measureLine(points)",
   "measureLine(p1,p2)", "bearing", "measureLineProjected", "destination",
   "geodesicLine", "latitudeGeodesicCrossesAntimeridian", "computePolygonArea"}

MeasurementOperations ==
  PublicOperations
    \cup {"splitGeometryAtAntimeridian", "lengthUnits", "areaUnits",
          "convertLengthMeasurement", "convertAreaMeasurement",
          "computeSpheroidProject", "computeDistanceBearing"}

\* C1: whenever the ellipsoid id is NONE, willUseEllipsoid() is false and a
\* finished public operation has evaluated no ellipsoidal kernel.
C1_PlanarWhenNone ==
  mEllipsoid = GEO_NONE =>
    /\ ~willUseEllipsoid(Config)
    /\ lastOp \in PublicOperations => kernels = {}

\* C1, all operations but destination: with the ellipsoid id NONE they
\* evaluate no ellipsoidal kernel.
C1_PlanarWhenNoneButDestination ==
  (mEllipsoid = GEO_NONE /\ lastOp \in PublicOperations \ {"destination"})
    => kernels = {}

\* C2: setEllipsoid(id) returns false exactly when the catalog does not know
\* the id, and setEllipsoid(a, b) returns false exactly when a or b is not
\* positive.
C2_SettersReportErrors ==
  /\ lastOp = "setEllipsoid(id)" =>
       (ret = (arg[1] = GEO_NONE \/ ellipsoidParameters(arg[1]).valid))
  /\ lastOp = "setEllipsoid(a,b)" => (ret = (arg[1] > 0 /\ arg[2] > 0))

\* C2, the half about setEllipsoid(id) alone.
C2_IdSetterReportsErrors ==
  lastOp = "setEllipsoid(id)" =>
    (ret = (arg[1] = GEO_NONE \/ ellipsoidParameters(arg[1]).valid))

\* C3: a call of setEllipsoid(id) that returns false leaves the ellipsoid id,
\* the semi-major and semi-minor axes, the inverse flattening, the area
\* constants and the destination CRS as they were before the call.
C3_FailedSetterKeepsConfiguration ==
  [][(lastOp' = "setEllipsoid(id)" /\ ret' = FALSE)
       => UNCHANGED <<mEllipsoid, mSemiMajor, mSemiMinor, mInvFlattening,
                      mArea, mDestCrs>>]_vars

\* a rejected id after an ellipsoid had been configured
C3_Witness ==
  /\ lastOp = "setEllipsoid(id)"
  /\ ret = FALSE
  /\ arg[1] = <<"bogus", 0, 0>>
  /\ mEllipsoid = <<"WGS84", 0, 0>>
  /\ mSemiMajor = 3
  /\ mDestCrs = "EPSG:4326"

\* C4: in every state where willUseEllipsoid() is true, the semi-major axis,
\* the semi-minor axis and the inverse flattening are finite and positive.
C4_EllipsoidFinitePositive ==
  willUseEllipsoid(Config) =>
    /\ mSemiMajor > 0
    /\ mSemiMinor > 0
    /\ IsFiniteR(mInvFlattening)
    /\ mInvFlattening[1] > 0

\* C5: a measurement operation leaves the ellipsoid id, the axes, the inverse
\* flattening, the area constants and the transform's CRSs unchanged, and its
\* result is the one the operation gives on the configuration it leaves.
C5_MeasurementsReadOnly ==
  [][lastOp' \in MeasurementOperations =>
       /\ UNCHANGED cfgvars
       /\ lastOp' = "measureLine(p1,p2)" =>
            ret' = measureLinePair(Config', arg'[1], arg'[2]).ret
       /\ lastOp' = "destination" =>
            ret' = destination(Config', arg'[1], arg'[2], arg'[3]).ret
       /\ lastOp' = "measureArea" => ret' = measureArea(Config', arg'[1]).ret
       /\ lastOp' = "lengthUnits" => ret' = lengthUnits(Config')]_vars

\* an area measured on a configured ellipsoid
C5_Witness ==
  /\ lastOp = "measureArea"
  /\ arg[1].type = "polygon"
  /\ mEllipsoid = <<"clrk66", 0, 0>>
  /\ kernels = {"AreaSeries"}
  /\ mArea = computeAreaInit(Config).mArea
  /\ ret = measureArea(Config, arg[1]).ret

\* C6 as stated: computeDistanceBearing returns the sentinel -1 exactly when
\* 20 updates of lambda have run without convergence, and the computed
\* distance whenever convergence comes within 20 updates.
C6_SentinelAfterTwentyUpdates ==
  (lastOp = "computeDistanceBearing" /\ arg[1] # arg[2]) =>
    /\ ret.path = "sentinel" <=> (ret.bodies = 20 /\ arg[3] > 20)
    /\ arg[3] <= 20 => ret.path = "computed"

\* C6: computeDistanceBearing returns the sentinel -1 exactly when 19 updates
\* of lambda have run and the 20th convergence test still fails; whenever
\* convergence comes within 19 updates, the 19th included, it takes the
\* normal return with the computed distance.
C6_SentinelAfterNineteenUpdates ==
  (lastOp = "computeDistanceBearing" /\ arg[1] # arg[2]) =>
    /\ ret.path = "sentinel" <=> (ret.bodies = 19 /\ arg[3] > 19)
    /\ ret.path = "sentinel" => ret.ret = -1
    /\ arg[3] <= 19 =>
         /\ ret.path = "computed"
         /\ ret.bodies = arg[3]
         /\ ret.ret = mSemiMinor * AngularDistance(arg[1], arg[2])

\* convergence would have come with the 20th update: the sentinel is returned
C6_Witness ==
  /\ lastOp = "computeDistanceBearing"
  /\ arg[1] # arg[2]
  /\ arg[3] = 20
  /\ ret.path = "sentinel"
  /\ ret.bodies = 19
  /\ ret.ret = -1

\* the length of the segments of a transformed line from vertex i on, the
\* segments on which the inverse computation did not converge left out
RECURSIVE convergedLength(_, _, _)
convergedLength(c, points, i) ==
  IF i >= Len(points) THEN 0
  ELSE LET p1 == Transform(c, points[i])
           p2 == Transform(c, points[i + 1])
           r == computeDistanceBearing(c, p1, p2, LambdaIterations(p1, p2))
       IN  (IF r.path = "computed" THEN r.ret ELSE 0)
             + convergedLength(c, points, i + 1)

\* C7: in ellipsoidal mode a segment on which the inverse computation gave the
\* sentinel -1 is not added as the number -1: measureLine(p1, p2) does not
\* return -1 for it, and measureLine over a point sequence returns no less
\* than the length of its converged segments.
C7_SentinelIsNoResult ==
  LET transformed(points) ==
        \A i \in 1 .. Len(points) : ~TransformThrows(Config, points[i])
      sentinel(p1, p2) ==
        computeDistanceBearing(Config, p1, p2, LambdaIterations(p1, p2)).path
          = "sentinel"
  IN  willUseEllipsoid(Config) =>
        /\ (lastOp = "measureLine(p1,p2)" /\ transformed(arg)
              /\ sentinel(Transform(Config, arg[1]), Transform(Config, arg[2])))
             => ret # -1
        /\ (lastOp = "measureLine(points)" /\ transformed(arg[1]))
             => ret >= convergedLength(Config, arg[1], 1)

\* C8: in ellipsoidal mode a line or ring with a vertex the transform rejects
\* contributes 0, and a collection's result is the sum of its parts'
\* contributions.
C8_FailedPartContributesZero ==
  LET rejected(points) ==
        \E i \in 1 .. Len(points) : TransformThrows(Config, points[i])
      lineOf(g) == IF rejected(g.pts) THEN 0 ELSE measureLine(Config, g.pts).ret
      ringOf(g) == IF rejected(g.pts) THEN RInt(0)
                   ELSE measurePolygon(Config, g.pts).ret
      surfaceOf(g) == IF Len(g.parts) = 1 THEN ringOf(g.parts[1])
                      ELSE RSub(ringOf(g.parts[1]), ringOf(g.parts[2]))
      g == arg[1]
  IN  (willUseEllipsoid(Config) /\ ~threw) =>
        /\ (lastOp = "measureLine(points)" /\ rejected(arg[1])) => ret = 0
        /\ (lastOp = "measureLength" /\ g.type = "line") => ret = lineOf(g)
        /\ (lastOp = "measureLength" /\ g.type = "collection"
              /\ g.parts[1].type = "line")
             => ret = lineOf(g.parts[1]) + lineOf(g.parts[2])
        /\ (lastOp = "measureArea" /\ g.type = "polygon")
             => ret = surfaceOf(g)
        /\ (lastOp = "measureArea" /\ g.type = "collection"
              /\ g.parts[1].type = "polygon")
             => ret = RAdd(surfaceOf(g.parts[1]), surfaceOf(g.parts[2]))

\* a collection whose first line is rejected at its last vertex, after a
\* segment of non-zero length, and whose second line is measured
C8_Witness ==
  /\ lastOp = "measureLength"
  /\ arg[1] = Collection(<<Line(<<Pt(-10, 0), Pt(-170, 10), Pt(0, 100)>>),
                           Line(<<Pt(-10, 0), Pt(-170, 10)>>)>>)
  /\ mEllipsoid = <<"WGS84", 0, 0>>
  /\ mSourceCrs = "EPSG:3857"
  /\ TransformThrows(Config, Pt(0, 100))
  /\ measureLine(Config, <<Pt(-10, 0), Pt(-170, 10)>>).ret > 0
  /\ ret = measureLine(Config, <<Pt(-10, 0), Pt(-170, 10)>>).ret
  /\ ~threw

\* C9: no public operation that transforms points lets the transform's
\* exception escape.
C9_NoTransformExceptionEscapes ==
  lastOp \in {"measureLine(points)", "measureLine(p1,p2)", "measureLength",
              "measureArea", "measurePerimeter", "bearing", "geodesicLine",
              "splitGeometryAtAntimeridian"}
    => ~threw

\* C9, all operations but bearing: a finished call has not thrown.
C9_NoExceptionButBearing ==
  lastOp # "bearing" => ~threw

\* C10: for an origin west of -180, east of 180 or beyond 85.05115 degrees of
\* latitude (in whole degrees: beyond 85), computeSpheroidProject returns the
\* point (0, 0) without a pass of its iteration and without an exception.
C10_OutOfDomainOriginRefused ==
  (lastOp = "computeSpheroidProject"
     /\ (arg[1].x < -180 \/ arg[1].x > 180 \/ arg[1].y < -85 \/ arg[1].y > 85))
    => /\ ret.ret = Pt(0, 0)
       /\ ret.bodies = 0
       /\ kernels = {}
       /\ ~threw

\* an origin at 86 degrees north on an ellipsoid with positive axes
C10_Witness ==
  /\ lastOp = "computeSpheroidProject"
  /\ arg[1] = Pt(0, 86)
  /\ arg[2] = 4
  /\ mSemiMajor > 0
  /\ mSemiMinor > 0
  /\ ret.ret = Pt(0, 0)
  /\ ret.bodies = 0

\* C11: in ellipsoidal mode measureArea never returns a negative value,
\* whatever the exterior ring and the interior rings of the polygon are
C11_AreaNonNegative ==
  (lastOp = "measureArea" /\ willUseEllipsoid(Config))
    => ~RLess(ret, RInt(0))

\* the same for polygons without interior rings and collections of them
C11_AreaNonNegativeWithoutHoles ==
  (/\ lastOp = "measureArea"
   /\ willUseEllipsoid(Config)
   /\ arg[1].type = "polygon" => Len(arg[1].parts) <= 1)
    => ~RLess(ret, RInt(0))

\* C12: for every pair of points that passes the crossing test,
\* latitudeGeodesicCrossesAntimeridian sets fractionAlongLine to a value in
\* [0, 1], in the planar shortcut and in the ellipsoidal search, in either
\* order of the two points
C12_FractionInUnitInterval ==
  (/\ lastOp = "latitudeGeodesicCrossesAntimeridian"
   /\ crossesAntimeridian(RInt(arg[1].x), RInt(arg[2].x)))
    => /\ RLeq(RInt(0), ret.fraction)
       /\ RLeq(ret.fraction, RInt(1))

\* the same for pairs with an end point off the antimeridian and, in the
\* ellipsoidal search, a semi-major axis other than 0
C12_FractionInUnitIntervalOffAntimeridian ==
  (/\ lastOp = "latitudeGeodesicCrossesAntimeridian"
   /\ crossesAntimeridian(RInt(arg[1].x), RInt(arg[2].x))
   /\ Abs(arg[1].x) # 180 \/ Abs(arg[2].x) # 180
   /\ mEllipsoid = GEO_NONE \/ mSemiMajor # 0)
    => /\ RLeq(RInt(0), ret.fraction)
       /\ RLeq(ret.fraction, RInt(1))

\* C13: splitGeometryAtAntimeridian applied to a single-part line with no
\* consecutive vertex pair satisfying the crossing test returns exactly one
\* linestring holding the same vertices in the same order, and applying it
\* again to that result returns the same result
C13_UncrossedLineReturnedAsIs ==
  LET pts == arg[1].pts
      lon(i) == RInt(Transform(Config, Pt(normalizeLongitude(Config, pts[i].x),
                                          pts[i].y)).x)
      back(line) == [k \in 1 .. Len(line) |-> Pt(line[k].x[1], line[k].y[1])]
  IN  (/\ lastOp = "splitGeometryAtAntimeridian"
       /\ arg[1].type = "line"
       /\ \A i \in 2 .. Len(pts) : ~crossesAntimeridian(lon(i - 1), lon(i)))
        => /\ Len(ret) = 1
           /\ ret[1] = [k \in 1 .. Len(pts) |-> ToR(pts[k])]
           /\ splitGeometryAtAntimeridian(
                Config, Collection(<<Line(back(ret[1]))>>)).ret = ret

\* C13 as the code has it: for a line with at least one vertex, the one
\* linestring holds the vertices in their order with each longitude as the
\* splitter normalises it (the vertices as they are when a transform
\* fails), and splitting the result again returns the same result
C13_UncrossedLineReturnedNormalised ==
  LET pts == arg[1].pts
      norm(i) == Pt(normalizeLongitude(Config, pts[i].x), pts[i].y)
      lon(i) == RInt(Transform(Config, norm(i)).x)
      fails == \E i \in 1 .. Len(pts) : TransformThrows(Config, norm(i))
      back(line) == [k \in 1 .. Len(line) |-> Pt(line[k].x[1], line[k].y[1])]
  IN  (/\ lastOp = "splitGeometryAtAntimeridian"
       /\ arg[1].type = "line"
       /\ Len(pts) > 0
       /\ \A i \in 2 .. Len(pts) : ~crossesAntimeridian(lon(i - 1), lon(i)))
        => /\ Len(ret) = 1
           /\ ret[1] = [k \in 1 .. Len(pts) |->
                          IF fails THEN ToR(pts[k]) ELSE ToR(norm(k))]
           /\ splitGeometryAtAntimeridian(
                Config, Collection(<<Line(back(ret[1]))>>)).ret = ret

\* a line with a longitude of 190 was split in a geographic source CRS
C13_Witness ==
  /\ lastOp = "splitGeometryAtAntimeridian"
  /\ arg[1] = Line(<<Pt(190, 0), Pt(-170, 10)>>)
  /\ isGeographic(mSourceCrs)
  /\ ret = <<<<ToR(Pt(-170, 0)), ToR(Pt(-170, 10))>>>>

\* the vertices of linestrings j .. Len(lines) of a split part without the
\* point each crossing put at the end of one linestring and at the start of
\* the next
RECURSIVE verticesOf(_, _)
verticesOf(lines, j) ==
  IF j > Len(lines) THEN <<>>
  ELSE SubSeq(lines[j], IF j > 1 THEN 2 ELSE 1,
              IF j < Len(lines) THEN Len(lines[j]) - 1 ELSE Len(lines[j]))
         \o verticesOf(lines, j + 1)

\* C14: for a linestring part in which k consecutive vertex pairs satisfy the
\* crossing test and no transform fails, splitGeometryAtAntimeridian emits
\* exactly k + 1 linestrings; a linestring emitted at a crossing ends with an
\* inserted point at -180 or +180 (transformed back to the source CRS) on the
\* side of the previous vertex, the next one starts with an inserted point at
\* the opposite-signed 180 with the same latitude, and every vertex (with its
\* longitude as the splitter normalises it) appears exactly once, in order
C14_SplitAtEachCrossing ==
  LET pts == arg[1].pts
      norm(i) == Pt(normalizeLongitude(Config, pts[i].x), pts[i].y)
      at(i) == ToR(Transform(Config, norm(i)))
      crossed(i) == crossesAntimeridian(at(i - 1).x, at(i).x)
      lat180(i) ==
        latitudeGeodesicCrossesAntimeridian(Config, at(i - 1), at(i)).ret
      k == Cardinality({i \in 2 .. Len(pts) : crossed(i)})
      inserted(lon, lat) == ReverseTransformR(Config, [x |-> lon, y |-> lat])
      lonOf(v) == RInt(Transform(Config, Pt(v.x[1], v.y[1])).x)
  IN  (/\ lastOp = "splitGeometryAtAntimeridian"
       /\ arg[1].type = "line"
       /\ Len(pts) > 0
       /\ \A i \in 1 .. Len(pts) : ~TransformThrows(Config, norm(i))
       /\ \A i \in 2 .. Len(pts) :
            crossed(i)
              => ~ReverseThrowsR(Config, [x |-> RInt(180), y |-> lat180(i)]))
        => /\ Len(ret) = k + 1
           /\ \A j \in 1 .. Len(ret) - 1 :
                /\ Len(ret[j]) >= 2
                /\ Len(ret[j + 1]) >= 2
                /\ ret[j][Len(ret[j])] =
                     inserted(side(lonOf(ret[j][Len(ret[j]) - 1])),
                              ret[j][Len(ret[j])].y)
                /\ ret[j + 1][1] =
                     inserted(RNeg(side(lonOf(ret[j][Len(ret[j]) - 1]))),
                              ret[j][Len(ret[j])].y)
           /\ verticesOf(ret, 1) = [i \in 1 .. Len(pts) |-> ToR(norm(i))]

\* the same for the parts whose crossings all have a finite latitude on the
\* antimeridian
C14_SplitAtEachFiniteCrossing ==
  LET pts == arg[1].pts
      at(i) == ToR(Transform(Config, Pt(normalizeLongitude(Config, pts[i].x),
                                        pts[i].y)))
  IN  \/ C14_SplitAtEachCrossing
      \/ /\ lastOp = "splitGeometryAtAntimeridian"
         /\ \E i \in 2 .. Len(pts) :
              /\ crossesAntimeridian(at(i - 1).x, at(i).x)
              /\ ~IsFiniteR(latitudeGeodesicCrossesAntimeridian(
                              Config, at(i - 1), at(i)).ret)

\* C15: when a coordinate transform fails while splitGeometryAtAntimeridian
\* processes a part, the result contains that part only as its unmodified
\* original, with no fragment of it split off before the failure, and no
\* later part of the input is processed or emitted
C15_FailedPartOnlyAsOriginal ==
  LET parts == IF arg[1].type = "line" THEN <<arg[1]>> ELSE arg[1].parts
      norm(l, i) == Pt(normalizeLongitude(Config, l.pts[i].x), l.pts[i].y)
      at(l, i) == ToR(Transform(Config, norm(l, i)))
      failsIn(l) ==
        \/ \E i \in 1 .. Len(l.pts) : TransformThrows(Config, norm(l, i))
        \/ \E i \in 2 .. Len(l.pts) :
             /\ crossesAntimeridian(at(l, i - 1).x, at(l, i).x)
             /\ ReverseThrowsR(
                  Config,
                  [x |-> RInt(180),
                   y |-> latitudeGeodesicCrossesAntimeridian(
                           Config, at(l, i - 1), at(l, i)).ret])
      before(n) ==
        splitGeometryAtAntimeridian(Config,
                                    Collection(SubSeq(parts, 1, n - 1))).ret
      original(l) == [i \in 1 .. Len(l.pts) |-> ToR(l.pts[i])]
  IN  (/\ lastOp = "splitGeometryAtAntimeridian"
       /\ IsLineGeometry(arg[1]))
        => \A n \in 1 .. Len(parts) :
             (failsIn(parts[n]) /\ \A m \in 1 .. n - 1 : ~failsIn(parts[m]))
               => ret = Append(before(n), original(parts[n]))

\* what holds of a part whose transform fails: its original is the last
\* linestring of the result, after whatever was emitted before the failure
C15_FailedPartEmittedLastAsOriginal ==
  LET parts == IF arg[1].type = "line" THEN <<arg[1]>> ELSE arg[1].parts
      norm(l, i) == Pt(normalizeLongitude(Config, l.pts[i].x), l.pts[i].y)
      at(l, i) == ToR(Transform(Config, norm(l, i)))
      failsIn(l) ==
        \/ \E i \in 1 .. Len(l.pts) : TransformThrows(Config, norm(l, i))
        \/ \E i \in 2 .. Len(l.pts) :
             /\ crossesAntimeridian(at(l, i - 1).x, at(l, i).x)
             /\ ReverseThrowsR(
                  Config,
                  [x |-> RInt(180),
                   y |-> latitudeGeodesicCrossesAntimeridian(
                           Config, at(l, i - 1), at(l, i)).ret])
      before(n) ==
        splitGeometryAtAntimeridian(Config,
                                    Collection(SubSeq(parts, 1, n - 1))).ret
      original(l) == [i \in 1 .. Len(l.pts) |-> ToR(l.pts[i])]
  IN  (/\ lastOp = "splitGeometryAtAntimeridian"
       /\ IsLineGeometry(arg[1]))
        => \A n \in 1 .. Len(parts) :
             (failsIn(parts[n]) /\ \A m \in 1 .. n - 1 : ~failsIn(parts[m]))
               => /\ Len(ret) > Len(before(n))
                  /\ SubSeq(ret, 1, Len(before(n))) = before(n)
                  /\ ret[Len(ret)] = original(parts[n])

\* C16: geodesicLine in ellipsoidal mode emits, after p1, the positions at
\* d = interval, 2 * interval, ... only for d < s13, and then the end point p2
\* as the last point, for every interval > 0: after each pass of the loop the
\* distance just sampled is below s13, and a finished call ends with p2
C16_SamplesOnlyBeforeEnd ==
  /\ (lastOp = "geodesicLine" /\ gl.active /\ gl.passes > 0)
       => RLess(RSub(gl.d, RInt(gl.interval)), gl.line.s13)
  /\ (lastOp = "geodesicLine" /\ ~gl.active /\ willUseEllipsoid(Config)
        /\ ret # <<>>)
       => ret[Len(ret)][Len(ret[Len(ret)])] = ToR(arg[2])

\* the same for the calls whose interval is below s13
C16_SamplesOnlyBeforeEndOfLongerLine ==
  /\ (lastOp = "geodesicLine" /\ gl.active /\ gl.passes > 0
        /\ RLess(RInt(gl.interval), gl.line.s13))
       => RLess(RSub(gl.d, RInt(gl.interval)), gl.line.s13)
  /\ (lastOp = "geodesicLine" /\ ~gl.active /\ willUseEllipsoid(Config)
        /\ ret # <<>>)
       => ret[Len(ret)][Len(ret[Len(ret)])] = ToR(arg[2])

-----------------------------------------------------------------------------
(* Iteration caps *)

-----------------------------------------------------------------------------
(* The fraction along the line of the antimeridian crossing *)

\* C18: on exit of the ellipsoidal antimeridian search, fractionAlongLine is
\* the arc length from the search's first end point (the one below 180) to
\* the returned crossing point, divided by the arc length s13 between the
\* caller's two points, and 1 minus that if the caller gave the points in the
\* other order; also when binary-search steps replaced the lower end of the
\* window.
C18_FractionMeasuredFromFirstEndPoint ==
  (lastOp = "latitudeGeodesicCrossesAntimeridian" /\ mEllipsoid # GEO_NONE)
    => LET v == ordered(eastOfMinus120(ToR(arg[1])),
                        eastOfMinus120(ToR(arg[2])))
       IN  ret.fraction =
             oriented(v,
               RDiv(geodInverseLine(Config, v.p1y, v.p1x, ret.ret,
                                    RInt(180)).s13,
                    geodInverseLine(Config, v.p1y, v.p1x, v.p2y,
                                    v.p2x).s13))

\* the same for the searches that made no binary-search step: the first pass
\* of the loop is always Newton's step
C18_FractionOfNewtonSearch ==
  (/\ lastOp = "latitudeGeodesicCrossesAntimeridian"
   /\ mEllipsoid # GEO_NONE
   /\ ret.iterations <= 1)
    => LET v == ordered(eastOfMinus120(ToR(arg[1])),
                        eastOfMinus120(ToR(arg[2])))
       IN  ret.fraction =
             oriented(v,
               RDiv(geodInverseLine(Config, v.p1y, v.p1x, ret.ret,
                                    RInt(180)).s13,
                    geodInverseLine(Config, v.p1y, v.p1x, v.p2y,
                                    v.p2x).s13))

-----------------------------------------------------------------------------
(* The longitude normalisation of the splitter *)

\* C19: with a geographic source CRS the normalisation that
\* splitGeometryAtAntimeridian applies to each vertex gives a longitude in
\* (-180, 180] for every input longitude, those below -180 and the multiples
\* of 180 and 360 included; with any other source CRS it leaves x as it is.
\* Seen on the lines that come back as one linestring of their own vertices:
\* lines without a crossing and without a failing transform.
C19_NormalisedIntoHalfOpenRange ==
  LET pts == arg[1].pts
      norm(i) == Pt(normalizeLongitude(Config, pts[i].x), pts[i].y)
      lon(i) == RInt(Transform(Config, norm(i)).x)
  IN  (/\ lastOp = "splitGeometryAtAntimeridian"
       /\ arg[1].type = "line"
       /\ Len(pts) > 0
       /\ \A i \in 1 .. Len(pts) : ~TransformThrows(Config, norm(i))
       /\ \A i \in 2 .. Len(pts) : ~crossesAntimeridian(lon(i - 1), lon(i)))
        => /\ Len(ret) = 1
           /\ Len(ret[1]) = Len(pts)
           /\ \A k \in 1 .. Len(pts) :
                IF isGeographic(mSourceCrs)
                THEN /\ RLess(RInt(-180), ret[1][k].x)
                     /\ RLeq(ret[1][k].x, RInt(180))
                ELSE ret[1][k].x = RInt(pts[k].x)

\* the same for lines whose longitudes are all above -180
C19_NormalisedFromAboveMinus180 ==
  LET pts == arg[1].pts
      norm(i) == Pt(normalizeLongitude(Config, pts[i].x), pts[i].y)
      lon(i) == RInt(Transform(Config, norm(i)).x)
  IN  (/\ lastOp = "splitGeometryAtAntimeridian"
       /\ arg[1].type = "line"
       /\ Len(pts) > 0
       /\ \A i \in 1 .. Len(pts) : pts[i].x > -180
       /\ \A i \in 1 .. Len(pts) : ~TransformThrows(Config, norm(i))
       /\ \A i \in 2 .. Len(pts) : ~crossesAntimeridian(lon(i - 1), lon(i)))
        => /\ Len(ret) = 1
           /\ Len(ret[1]) = Len(pts)
           /\ \A k \in 1 .. Len(pts) :
                IF isGeographic(mSourceCrs)
                THEN /\ RLess(RInt(-180), ret[1][k].x)
                     /\ RLeq(ret[1][k].x, RInt(180))
                ELSE ret[1][k].x = RInt(pts[k].x)

-----------------------------------------------------------------------------
(* The longitude unwrap of the polygon area walk *)

-----------------------------------------------------------------------------
(* The azimuth of the direct projection *)

\* C21: computeSpheroidProject normalises the azimuth before use, so that the
\* value that enters the Vincenty recurrence lies in [0, 2 pi) for every
\* input azimuth, exactly 2 pi, values below -2 pi and values above 4 pi
\* included. Azimuths are in units of pi / 2, 2 pi being 4.
C21_AzimuthInFullTurn ==
  (lastOp = "computeSpheroidProject" /\ ret.kernels = {"VincentyDirect"})
    => (0 <= ret.azimuth /\ ret.azimuth < 4)

\* the same for the input azimuths in [-2 pi, 2 pi) and in (2 pi, 4 pi)
C21_AzimuthInFullTurnFromNearby ==
  (/\ lastOp = "computeSpheroidProject"
   /\ ret.kernels = {"VincentyDirect"}
   /\ (-4 <= arg[3] /\ arg[3] < 4) \/ (4 < arg[3] /\ arg[3] < 8))
    => (0 <= ret.azimuth /\ ret.azimuth < 4)

-----------------------------------------------------------------------------
(* The Cartesian branch of measureLineProjected *)

\* C22: in the Cartesian branch of measureLineProjected (the source CRS is
\* not geographic, or there is no ellipsoid), with a source CRS in metres the
\* call returns the distance as it was passed in; with any other unit it
\* takes p1.distance( p2 ) before p2 is assigned and so returns the distance
\* from p1 to the default point (0, 0), not to the projected point; in both
\* cases the point written to projectedPoint is p1 projected by the distance,
\* converted from metres to the unit of the source CRS, at the azimuth.
C22_CartesianProjectedLength ==
  (/\ lastOp = "measureLineProjected"
   /\ ~(isGeographic(mSourceCrs) /\ willUseEllipsoid(Config)))
    => LET unit == mapUnits(mSourceCrs)
           converted == IF unit = "meters" THEN arg[2]
                        ELSE (arg[2] * fromMetersFactor(unit)[1])
                               \div fromMetersFactor(unit)[2]
       IN  /\ unit = "meters" => ret.ret = arg[2]
           /\ unit # "meters" => ret.ret = PlanarDistance(arg[1], Pt(0, 0))
           /\ ret.point = DirectPoint(arg[1], converted, arg[3])
           /\ ret.kernels = {}

\* a length of 4 was projected from (180, 0) in a source CRS in degrees
\* without an ellipsoid: the call returned 180, the distance of p1 from
\* (0, 0), and wrote the point 2 degrees east of p1
C22_Witness ==
  /\ lastOp = "measureLineProjected"
  /\ mEllipsoid = GEO_NONE
  /\ mSourceCrs = "EPSG:4326"
  /\ arg = <<Pt(180, 0), 4, 1>>
  /\ ret.ret = 180
  /\ ret.point = Pt(182, 0)
  /\ PlanarDistance(arg[1], ret.point) = 2

\* a source CRS in metres returned the distance as passed in
C22_WitnessMetres ==
  /\ lastOp = "measureLineProjected"
  /\ mapUnits(mSourceCrs) = "meters"
  /\ arg = <<Pt(180, 0), 4, 1>>
  /\ ret.ret = 4
  /\ ret.point = Pt(184, 0)

-----------------------------------------------------------------------------
(* Termination of the sampling loop of geodesicLine *)

\* C23: in ellipsoidal mode the sampling loop of geodesicLine terminates for
\* every interval and every pair of end points, an interval of 0, negative
\* intervals and coincident end points included. The loop ends only through
\* lastRun, which is set once d >= totalDist, and d changes by the interval
\* in each pass: the loop terminates when every pass that does not end it
\* moves d on towards totalDist, and runs for ever once a pass leaves d where
\* it was or moves it back.
C23_EveryPassAdvances ==
  [][(gl.active /\ gl'.active /\ gl'.passes = gl.passes + 1)
       => RLess(gl.d, gl'.d)]_vars

\* the same for the calls with an interval above 0
C23_EveryPassOfPositiveIntervalAdvances ==
  [][(gl.active /\ gl'.active /\ gl'.passes = gl.passes + 1
        /\ gl.interval > 0)
       => RLess(gl.d, gl'.d)]_vars

\* a call with an interval of 0 or below ends only for coincident end points:
\* otherwise it is still in its loop, lastRun unset, after every pass
C23_NonPositiveIntervalEndsOnlyAtOnce ==
  (lastOp = "geodesicLine" /\ arg[3] <= 0 /\ gl.active
     /\ RLess(RInt(0), gl.line.s13))
    => ~gl.lastRun /\ RLeq(gl.d, RInt(arg[3]))

====
